---- MODULE Spec2Model ----
(***************************************************************************)
(* A model of the lodestone crate's extraction layer: the search builder,  *)
(* the profile and class-progress extractors, the world-status extractor   *)
(* and the free-company leaderboard row extractor.                         *)
(*                                                                         *)
(* Texts (Rust String / &str) are sequences of characters; a character is  *)
(* a one-character string, or a named code point for the three non-ASCII   *)
(* characters the source handles.  Documents are the regions the           *)
(* extractors query, in document order.                                    *)
(***************************************************************************)
EXTENDS Integers, Sequences, FiniteSets, TLC

VARIABLES
  builder,      \* search.rs: the SearchBuilder value (self)
  built,        \* search.rs: TRUE once build_url has consumed the builder
  url,          \* search.rs: the String build_url returned
  last_world,   \* history: the most recent server()/datacenter() call
  main_doc,     \* profile.rs: the character page handed to parse_profile
  classes_doc,  \* profile.rs: the class/job page handed to parse_profile
  profile,      \* profile.rs: what parse_profile returned
  class_map,    \* profile.rs: what parse_classes returned
  world_row,    \* server.rs: the world-list row handed to ServerStatus::parse_from
  status,       \* server.rs: what ServerStatus::parse_from returned
  lb_row,       \* standings.rs: the table row handed to parse_node
  lb_result,    \* standings.rs: what parse_node returned
  search_doc,   \* search.rs: the entry__link nodes of a search result page
  search_results, \* search.rs: what SearchBuilder::parse_profile returned
  catalog,      \* model/*.rs: the catalog type whose impl is exercised
  catalog_variant, \* model/*.rs: the variant handed to Display
  catalog_text, \* model/*.rs: the text handed to from_str
  catalog_result, \* model/*.rs: what from_str returned
  world_doc,    \* server.rs: the world-status page handed to parse_from_doc
  snapshot,     \* server.rs: what DataCenterDetails::parse_from_doc returned
  lookup_id,    \* profile.rs: the user_id handed to Profile::get_async
  lookup_pc,    \* profile.rs: the await get_async is suspended at
  class_response, \* util.rs: what send() of the class sub-page request gave
  class_page,   \* profile.rs: what the load of the class sub-page gave
  profile_response, \* util.rs: what send() of the main page request gave
  profile_page, \* profile.rs: what the load of the main page gave
  query,        \* standings.rs: the FreeCompanyLeaderboardQuery value (self)
  query_parts   \* standings.rs: the String get_query_parts returned

vars == <<builder, built, url, last_world, main_doc, classes_doc, profile, class_map,
          world_row, status, lb_row, lb_result,
          search_doc, search_results, catalog, catalog_variant, catalog_text,
          catalog_result,
          world_doc, snapshot, lookup_id, lookup_pc, class_response, class_page,
          profile_response, profile_page, query, query_parts>>

search_vars == <<builder, built, url, last_world>>
profile_vars == <<main_doc, classes_doc, profile, class_map>>
status_vars == <<world_row, status>>
standings_vars == <<lb_row, lb_result>>
results_vars == <<search_doc, search_results>>
catalog_vars == <<catalog, catalog_variant, catalog_text, catalog_result>>
worlds_vars == <<world_doc, snapshot>>
lookup_vars ==
  <<lookup_id, lookup_pc, class_response, class_page, profile_response, profile_page>>
query_vars == <<query, query_parts>>
remote_vars == <<worlds_vars, lookup_vars, query_vars>>

----------------------------------------------------------------------------
(* Option, Result and text primitives                                      *)

None == [some |-> FALSE]
Some(v) == [some |-> TRUE, val |-> v]

Ok(v) == [tag |-> "Ok", val |-> v]
\* An error value: its enum variant, the &'static str or node name it
\* carries (if any) and the offending text it carries (if any).
Err(variant, node, text) == [tag |-> "Err", variant |-> variant, node |-> node, text |-> text]
\* A Rust panic unwinding out of the call.
Panic(message) == [tag |-> "Panic", message |-> message]

NotStarted == [tag |-> "NotStarted"]
\* The value of a call that returns no Result.
Done(v) == [tag |-> "Done", val |-> v]

\* The characters of an ASCII string literal, one element per character.
Chars(s) == [i \in 1..Len(s) |-> SubSeq(s, i, i)]

NBSP == "U+00A0"
FEMALE == "U+2640"
MALE == "U+2642"

\* char::is_whitespace over the characters that occur in the model.
IsWhitespace(c) == c \in {" ", "\n", "\t", NBSP}

IsAsciiDigit(c) == c \in {"0", "1", "2", "3", "4", "5", "6", "7", "8", "9"}

DigitValue(c) == CHOOSE d \in 0..9 : Chars("0123456789")[d + 1] = c

LowerAlphabet == Chars("abcdefghijklmnopqrstuvwxyz")
UpperAlphabet == Chars("ABCDEFGHIJKLMNOPQRSTUVWXYZ")

\* char::to_uppercase for the characters that occur in the model.
UpperChar(c) ==
  IF \E i \in 1..26 : LowerAlphabet[i] = c
  THEN UpperAlphabet[CHOOSE i \in 1..26 : LowerAlphabet[i] = c]
  ELSE c

\* str::to_uppercase
ToUppercase(s) == [i \in 1..Len(s) |-> UpperChar(s[i])]

RECURSIVE TrimStart(_)
TrimStart(s) ==
  IF s # <<>> /\ IsWhitespace(Head(s)) THEN TrimStart(Tail(s)) ELSE s

RECURSIVE TrimEnd(_)
TrimEnd(s) ==
  IF s # <<>> /\ IsWhitespace(s[Len(s)]) THEN TrimEnd(SubSeq(s, 1, Len(s) - 1)) ELSE s

\* str::trim
Trim(s) == TrimEnd(TrimStart(s))

\* TRUE iff pat occurs in s starting at position i (1-based).
MatchesAt(s, pat, i) ==
  /\ i + Len(pat) - 1 <= Len(s)
  /\ SubSeq(s, i, i + Len(pat) - 1) = pat

\* str::split(pat) for a non-empty pattern: the pieces between the
\* non-overlapping matches found left to right; always at least one piece.
RECURSIVE SplitFrom(_, _, _, _)
SplitFrom(s, pat, start, i) ==
  IF i > Len(s) THEN <<SubSeq(s, start, Len(s))>>
  ELSE IF MatchesAt(s, pat, i)
       THEN <<SubSeq(s, start, i - 1)>> \o SplitFrom(s, pat, i + Len(pat), i + Len(pat))
       ELSE SplitFrom(s, pat, start, i + 1)

Split(s, pat) == SplitFrom(s, pat, 1, 1)

\* str::replace(from, to) for a non-empty pattern.
RECURSIVE Replace(_, _, _)
Replace(s, from, to) ==
  IF s = <<>> THEN <<>>
  ELSE IF MatchesAt(s, from, 1)
       THEN to \o Replace(SubSeq(s, Len(from) + 1, Len(s)), from, to)
       ELSE <<Head(s)>> \o Replace(Tail(s), from, to)

\* str::split_whitespace: the maximal runs of non-whitespace characters.
RECURSIVE SplitWhitespaceFrom(_, _)
SplitWhitespaceFrom(s, cur) ==
  IF s = <<>> THEN (IF cur = <<>> THEN <<>> ELSE <<cur>>)
  ELSE IF IsWhitespace(Head(s))
       THEN (IF cur = <<>> THEN <<>> ELSE <<cur>>) \o SplitWhitespaceFrom(Tail(s), <<>>)
       ELSE SplitWhitespaceFrom(Tail(s), Append(cur, Head(s)))

SplitWhitespace(s) == SplitWhitespaceFrom(s, <<>>)

\* Integers are kept as canonical decimal numerals (no sign for zero or
\* positive values, no leading zero), so that the range checks of the
\* fixed-width types are exact.
RECURSIVE StripLeadingZeros(_)
StripLeadingZeros(digits) ==
  IF Len(digits) > 1 /\ Head(digits) = "0" THEN StripLeadingZeros(Tail(digits)) ELSE digits

\* Lexicographic order on digit strings of equal length.
RECURSIVE DigitsLeq(_, _)
DigitsLeq(a, b) ==
  IF a = <<>> THEN TRUE
  ELSE IF DigitValue(Head(a)) < DigitValue(Head(b)) THEN TRUE
  ELSE IF DigitValue(Head(a)) > DigitValue(Head(b)) THEN FALSE
  ELSE DigitsLeq(Tail(a), Tail(b))

\* magnitude <= limit, both canonical numerals without sign.
MagnitudeLeq(magnitude, limit) ==
  \/ Len(magnitude) < Len(limit)
  \/ Len(magnitude) = Len(limit) /\ DigitsLeq(magnitude, limit)

U16Max == Chars("65535")
U32Max == Chars("4294967295")
I32Max == Chars("2147483647")
I32MinMagnitude == Chars("2147483648")
I64Max == Chars("9223372036854775807")
I64MinMagnitude == Chars("9223372036854775808")

\* str::parse for the integer types: an optional sign ('+' always, '-' for
\* the signed types), then one or more ASCII digits and nothing else, the
\* value within the type's range; anything else is a ParseIntError.
ParseInt(s, signed, max, minMagnitude) ==
  LET neg == signed /\ s # <<>> /\ Head(s) = "-"
      digits == IF s # <<>> /\ (Head(s) = "+" \/ neg) THEN Tail(s) ELSE s
  IN IF digits = <<>> \/ \E i \in 1..Len(digits) : ~IsAsciiDigit(digits[i])
     THEN Err("ParseIntError", "", s)
     ELSE LET magnitude == StripLeadingZeros(digits)
          IN IF neg
             THEN IF ~MagnitudeLeq(magnitude, minMagnitude) THEN Err("ParseIntError", "", s)
                  ELSE IF magnitude = <<"0">> THEN Ok(magnitude)
                  ELSE Ok(<<"-">> \o magnitude)
             ELSE IF ~MagnitudeLeq(magnitude, max) THEN Err("ParseIntError", "", s)
                  ELSE Ok(magnitude)

ParseU16(s) == ParseInt(s, FALSE, U16Max, <<"0">>)
ParseU32(s) == ParseInt(s, FALSE, U32Max, <<"0">>)
ParseI32(s) == ParseInt(s, TRUE, I32Max, I32MinMagnitude)
ParseI64(s) == ParseInt(s, TRUE, I64Max, I64MinMagnitude)

----------------------------------------------------------------------------
(* Catalog types                                                           *)

\* A match over string literals: the variant of the first arm whose literal
\* equals key, or "" when no arm matches.
ArmFor(arms, key) ==
  IF \E a \in arms : Chars(a[1]) = key
  THEN (CHOOSE a \in arms : Chars(a[1]) = key)[2]
  ELSE ""

DatacenterFromStrArms ==
  {<<"AETHER", "Aether">>, <<"CHAOS", "Chaos">>, <<"CRYSTAL", "Crystal">>,
   <<"ELEMENTAL", "Elemental">>, <<"GAIA", "Gaia">>, <<"LIGHT", "Light">>,
   <<"MANA", "Mana">>, <<"PRIMAL", "Primal">>, <<"MATERIA", "Materia">>,
   <<"METEOR", "Meteor">>, <<"DYNAMIS", "Dynamis">>}

Datacenter == {a[2] : a \in DatacenterFromStrArms}

\* from_str for Datacenter matching the text as given, without to_uppercase.
DatacenterFromStrCaseSensitive(s) ==
  IF ArmFor(DatacenterFromStrArms, s) # ""
  THEN Ok(ArmFor(DatacenterFromStrArms, s))
  ELSE Err("DatacenterParseError", "", s)

\* impl FromStr for Datacenter
DatacenterFromStr(s) ==
  LET x == ToUppercase(s)
      v == ArmFor(DatacenterFromStrArms, x)
  IN IF v # "" THEN Ok(v) ELSE Err("DatacenterParseError", "", x)

DatacenterDisplayArms ==
  {<<"Aether", "Aether">>, <<"Chaos", "Chaos">>, <<"Crystal", "Crystal">>,
   <<"Elemental", "Elemental">>, <<"Gaia", "Gaia">>, <<"Light", "Light">>,
   <<"Mana", "Mana">>, <<"Primal", "Primal">>, <<"Materia", "Materia">>,
   <<"Meteor", "Meteor">>, <<"Dynamis", "Dynamis">>}

\* impl fmt::Display for Datacenter
DatacenterDisplay(d) == Chars((CHOOSE a \in DatacenterDisplayArms : a[1] = d)[2])

ServerFromStrArms ==
  {<<"AEGIS", "Aegis">>, <<"ATOMOS", "Atomos">>, <<"CARBUNCLE", "Carbuncle">>,
    <<"GARUDA", "Garuda">>, <<"GUNGNIR", "Gungnir">>, <<"KUJATA", "Kujata">>,
    <<"RAMUH", "Ramuh">>, <<"TONBERRY", "Tonberry">>, <<"TYPHON", "Typhon">>,
    <<"UNICORN", "Unicorn">>, <<"ALEXANDER", "Alexander">>, <<"BAHAMUT", "Bahamut">>,
    <<"DURANDAL", "Durandal">>, <<"FENRIR", "Fenrir">>, <<"IFRIT", "Ifrit">>,
    <<"RIDILL", "Ridill">>, <<"TIAMAT", "Tiamat">>, <<"ULTIMA", "Ultima">>,
    <<"VALEFOR", "Valefor">>, <<"YOJIMBO", "Yojimbo">>, <<"ZEROMUS", "Zeromus">>,
    <<"ANIMA", "Anima">>, <<"ANIUMA", "Anima">>, <<"ASURA", "Asura">>, <<"BELIAS", "Belias">>,
    <<"CHOCOBO", "Chocobo">>, <<"HADES", "Hades">>, <<"IXION", "Ixion">>,
    <<"MANDRAGORA", "Mandragora">>, <<"MASAMUNE", "Masamune">>,
    <<"PANDAEMONIUM", "Pandaemonium">>, <<"SHINRYU", "Shinryu">>, <<"TITAN", "Titan">>,
    <<"ADAMANTOISE", "Adamantoise">>, <<"BALMUNG", "Balmung">>, <<"CACTUAR", "Cactuar">>,
    <<"COEURL", "Coeurl">>, <<"FAERIE", "Faerie">>, <<"GILGAMESH", "Gilgamesh">>,
    <<"GOBLIN", "Goblin">>, <<"JENOVA", "Jenova">>, <<"MATEUS", "Mateus">>,
    <<"MIDGARDSORMR", "Midgardsormr">>, <<"SARGATANAS", "Sargatanas">>, <<"SIREN", "Siren">>,
    <<"ZALERA", "Zalera">>, <<"BEHEMOTH", "Behemoth">>, <<"BRYNHILDR", "Brynhildr">>,
    <<"DIABOLOS", "Diabolos">>, <<"EXCALIBUR", "Excalibur">>, <<"EXODUS", "Exodus">>,
    <<"FAMFRIT", "Famfrit">>, <<"HYPERION", "Hyperion">>, <<"LAMIA", "Lamia">>,
    <<"LEVIATHAN", "Leviathan">>, <<"MALBORO", "Malboro">>, <<"ULTROS", "Ultros">>,
    <<"CERBERUS", "Cerberus">>, <<"LOUISOIX", "Louisoix">>, <<"MOOGLE", "Moogle">>,
    <<"OMEGA", "Omega">>, <<"RAGNAROK", "Ragnarok">>, <<"SPRIGGAN", "Spriggan">>,
    <<"LICH", "Lich">>, <<"ODIN", "Odin">>, <<"PHOENIX", "Phoenix">>, <<"SHIVA", "Shiva">>,
    <<"TWINTANIA", "Twintania">>, <<"ZODIARK", "Zodiark">>, <<"BISMARCK", "Bismarck">>,
    <<"RAVANA", "Ravana">>, <<"SEPHIROT", "Sephirot">>, <<"SOPHIA", "Sophia">>,
    <<"ZURVAN", "Zurvan">>}

Server == {a[2] : a \in ServerFromStrArms}

\* from_str for Server with the arm of Anima matching "ANIMA" alone.
ServerFromStrAnimaOnly(s) ==
  IF ArmFor(ServerFromStrArms \ {<<"ANIUMA", "Anima">>}, ToUppercase(s)) # ""
  THEN Ok(ArmFor(ServerFromStrArms \ {<<"ANIUMA", "Anima">>}, ToUppercase(s)))
  ELSE Err("CategoryParseError", "", ToUppercase(s))

\* impl FromStr for Server; an unknown name is reported with the
\* CategoryParseError variant of ServerParseError.
ServerFromStr(s) ==
  LET x == ToUppercase(s)
      v == ArmFor(ServerFromStrArms, x)
  IN IF v # "" THEN Ok(v) ELSE Err("CategoryParseError", "", x)

ServerDisplayArms ==
  {<<"Aegis", "Aegis">>, <<"Atomos", "Atomos">>, <<"Carbuncle", "Carbuncle">>,
    <<"Garuda", "Garuda">>, <<"Gungnir", "Gungnir">>, <<"Kujata", "Kujata">>,
    <<"Ramuh", "Ramuh">>, <<"Tonberry", "Tonberry">>, <<"Typhon", "Typhon">>,
    <<"Unicorn", "Unicorn">>, <<"Alexander", "Alexander">>, <<"Bahamut", "Bahamut">>,
    <<"Durandal", "Durandal">>, <<"Fenrir", "Fenrir">>, <<"Ifrit", "Ifrit">>,
    <<"Ridill", "Ridill">>, <<"Tiamat", "Tiamat">>, <<"Ultima", "Ultima">>,
    <<"Valefor", "Valefor">>, <<"Yojimbo", "Yojimbo">>, <<"Zeromus", "Zeromus">>,
    <<"Anima", "Aniuma">>, <<"Asura", "Asura">>, <<"Belias", "Belias">>,
    <<"Chocobo", "Chocobo">>, <<"Hades", "Hades">>, <<"Ixion", "Ixion">>,
    <<"Mandragora", "Mandragora">>, <<"Masamune", "Masamune">>,
    <<"Pandaemonium", "Pandaemonium">>, <<"Shinryu", "Shinryu">>, <<"Titan", "Titan">>,
    <<"Adamantoise", "Adamantoise">>, <<"Balmung", "Balmung">>, <<"Cactuar", "Cactuar">>,
    <<"Coeurl", "Coeurl">>, <<"Faerie", "Faerie">>, <<"Gilgamesh", "Gilgamesh">>,
    <<"Goblin", "Goblin">>, <<"Jenova", "Jenova">>, <<"Mateus", "Mateus">>,
    <<"Midgardsormr", "Midgardsormr">>, <<"Sargatanas", "Sargatanas">>, <<"Siren", "Siren">>,
    <<"Zalera", "Zalera">>, <<"Behemoth", "Behemoth">>, <<"Brynhildr", "Brynhildr">>,
    <<"Diabolos", "Diabolos">>, <<"Excalibur", "Excalibur">>, <<"Exodus", "Exodus">>,
    <<"Famfrit", "Famfrit">>, <<"Hyperion", "Hyperion">>, <<"Lamia", "Lamia">>,
    <<"Leviathan", "Leviathan">>, <<"Malboro", "Malboro">>, <<"Ultros", "Ultros">>,
    <<"Cerberus", "Cerberus">>, <<"Louisoix", "Louisoix">>, <<"Moogle", "Moogle">>,
    <<"Omega", "Omega">>, <<"Ragnarok", "Ragnarok">>, <<"Spriggan", "Spriggan">>,
    <<"Lich", "Lich">>, <<"Odin", "Odin">>, <<"Phoenix", "Phoenix">>, <<"Shiva", "Shiva">>,
    <<"Twintania", "Twintania">>, <<"Zodiark", "Zodiark">>, <<"Bismarck", "Bismarck">>,
    <<"Ravana", "Ravana">>, <<"Sephirot", "Sephirot">>, <<"Sophia", "Sophia">>,
    <<"Zurvan", "Zurvan">>}

\* impl fmt::Display for Server
ServerDisplay(v) == Chars((CHOOSE a \in ServerDisplayArms : a[1] = v)[2])

GrandCompanyFromStrArms ==
  {<<"MAELSTROM", "Maelstrom">>, <<"ORDER OF THE TWIN ADDER", "TwinAdder">>,
   <<"TWIN ADDER", "TwinAdder">>, <<"IMMORTAL FLAMES", "ImmortalFlames">>,
   <<"", "Unaffiliated">>, <<"NONE", "Unaffiliated">>, <<"UNAFFILIATED", "Unaffiliated">>}

GrandCompany == {a[2] : a \in GrandCompanyFromStrArms}

\* impl FromStr for GrandCompany
GrandCompanyFromStr(s) ==
  LET x == ToUppercase(s)
      v == ArmFor(GrandCompanyFromStrArms, x)
  IN IF v # "" THEN Ok(v) ELSE Err("GrandCompanyParseError", "", x)

Language == {"Japanese", "English", "German", "French"}

LanguageFromStrArms ==
  {<<"JAPANESE", "Japanese">>, <<"JA", "Japanese">>, <<"ENGLISH", "English">>,
   <<"EN", "English">>, <<"GERMAN", "German">>, <<"DE", "German">>,
   <<"FRENCH", "French">>, <<"FR", "French">>}

\* impl FromStr for Language
LanguageFromStr(s) ==
  LET x == ToUppercase(s)
      v == ArmFor(LanguageFromStrArms, x)
  IN IF v # "" THEN Ok(v) ELSE Err("LanguageParseError", "", x)

RaceFromStrArms ==
  {<<"AU RA", "Aura">>, <<"ELEZEN", "Elezen">>, <<"HYUR", "Hyur">>,
   <<"LALAFELL", "Lalafell">>, <<"MIQO'TE", "Miqote">>, <<"ROEGADYN", "Roegadyn">>}

\* impl FromStr for Race
RaceFromStr(s) ==
  LET x == ToUppercase(s)
      v == ArmFor(RaceFromStrArms, x)
  IN IF v # "" THEN Ok(v) ELSE Err("RaceParseError", "", x)

\* impl FromStr for Gender: an exact match on the two symbols.
GenderFromStr(s) ==
  IF s = <<FEMALE>> THEN Ok("Female")
  ELSE IF s = <<MALE>> THEN Ok("Male")
  ELSE Err("GenderParseError", "", s)

\* The clan catalog: a case-insensitive text-to-enum mapping with a typed
\* parse error carrying the offending text.
ClanFromStrArms ==
  {<<"RAEN", "Raen">>, <<"XAELA", "Xaela">>, <<"MIDLANDER", "Midlander">>,
   <<"HIGHLANDER", "Highlander">>, <<"PLAINSFOLK", "Plainsfolk">>,
   <<"DUNESFOLK", "Dunesfolk">>, <<"WILDWOOD", "Wildwood">>, <<"DUSKWIGHT", "Duskwight">>,
   <<"SEEKER OF THE SUN", "SeekerOfTheSun">>, <<"KEEPER OF THE MOON", "KeeperOfTheMoon">>,
   <<"SEA WOLF", "SeaWolf">>, <<"HELLSGUARD", "Hellsguard">>}

ClanFromStr(s) ==
  LET x == ToUppercase(s)
      v == ArmFor(ClanFromStrArms, x)
  IN IF v # "" THEN Ok(v) ELSE Err("ClanParseError", "", x)

----------------------------------------------------------------------------
(* search.rs: SearchBuilder                                                *)

BASE_SEARCH_URL == Chars("https://na.finalfantasyxiv.com/lodestone/character/?")

\* #[derive(Default)] for SearchBuilder, which SearchBuilder::new returns.
DefaultSearchBuilder ==
  [server |-> None, datacenter |-> None, character |-> None, lang |-> {}, gc |-> {}]

\* character() on a fresh builder, dropping what earlier calls set.
character_resetting(self, name) == [DefaultSearchBuilder EXCEPT !.character = Some(name)]

character(self, name) == [self EXCEPT !.character = Some(name)]

datacenter(self, dc) == [self EXCEPT !.datacenter = Some(dc), !.server = None]

\* server() without the reset of the datacenter field.
server_keeps_datacenter(self, s) == [self EXCEPT !.server = Some(s)]

server(self, s) == [self EXCEPT !.server = Some(s), !.datacenter = None]

lang(self, l) == [self EXCEPT !.lang = @ \cup {l}]

grand_company(self, g) == [self EXCEPT !.gc = @ \cup {g}]

\* The orders in which a HashSet may hand out its elements.
IterationOrders(set) ==
  {order \in [1..Cardinality(set) -> set] :
     \A i, j \in 1..Cardinality(set) : order[i] = order[j] => i = j}

LangParam(l) ==
  CASE l = "Japanese" -> Chars("blog_lang=ja&")
    [] l = "English" -> Chars("blog_lang=en&")
    [] l = "German" -> Chars("blog_lang=de&")
    [] l = "French" -> Chars("blog_lang=fr&")

GcParam(g) ==
  CASE g = "Unaffiliated" -> Chars("gcid=0&")
    [] g = "Maelstrom" -> Chars("gcid=1&")
    [] g = "TwinAdder" -> Chars("gcid=2&")
    [] g = "ImmortalFlames" -> Chars("gcid=3&")

\* The for_each over a set: one write! per element, in iteration order.
RECURSIVE WriteAll(_, _)
WriteAll(out, params) ==
  IF params = <<>> THEN out ELSE WriteAll(out \o Head(params), Tail(params))

\* str::trim_end_matches for a single character.
RECURSIVE TrimEndMatches(_, _)
TrimEndMatches(s, c) ==
  IF s # <<>> /\ s[Len(s)] = c THEN TrimEndMatches(SubSeq(s, 1, Len(s) - 1), c) ELSE s

\* SearchBuilder::build_url; lang_order and gc_order are the orders in which
\* the two HashSets are iterated.
build_url(self, lang_order, gc_order) ==
  LET u0 == BASE_SEARCH_URL
      u1 == IF self.character.some
            THEN u0 \o Chars("q=") \o self.character.val \o <<"&">> ELSE u0
      u2 == IF self.datacenter.some
            THEN u1 \o Chars("worldname=_dc_") \o DatacenterDisplay(self.datacenter.val) \o <<"&">>
            ELSE u1
      u3 == IF self.server.some
            THEN u2 \o Chars("worldname=") \o ServerDisplay(self.server.val) \o <<"&">>
            ELSE u2
      u4 == WriteAll(u3, [i \in 1..Len(lang_order) |-> LangParam(lang_order[i])])
      u5 == WriteAll(u4, [i \in 1..Len(gc_order) |-> GcParam(gc_order[i])])
  IN TrimEndMatches(u5, "&")

\* The inputs the builder calls are given.
BuilderNames == {Chars("Al"), Chars("Bo Li")}
BuilderServers == {"Famfrit", "Odin"}
BuilderDatacenters == {"Primal", "Gaia"}

Idle == "idle"

ResultsIdle == search_doc = Idle /\ search_results = Idle

CatalogIdle ==
  catalog = Idle /\ catalog_variant = Idle /\ catalog_text = Idle /\ catalog_result = Idle

WorldsIdle == world_doc = Idle /\ snapshot = Idle

LookupIdle ==
  /\ lookup_id = Idle /\ lookup_pc = Idle
  /\ class_response = Idle /\ class_page = Idle
  /\ profile_response = Idle /\ profile_page = Idle

QueryIdle == query = Idle /\ query_parts = Idle

RemoteIdle == WorldsIdle /\ LookupIdle /\ QueryIdle

SearchInit ==
  /\ ResultsIdle /\ CatalogIdle /\ RemoteIdle
  /\ builder = DefaultSearchBuilder
  /\ built = FALSE
  /\ url = <<>>
  /\ last_world = None
  /\ main_doc = Idle /\ classes_doc = Idle /\ profile = Idle /\ class_map = Idle
  /\ world_row = Idle /\ status = Idle
  /\ lb_row = Idle /\ lb_result = Idle

SearchOthersUnchanged ==
  UNCHANGED <<profile_vars, status_vars, standings_vars, results_vars, catalog_vars, remote_vars>>

\* SearchBuilder::new()
New ==
  /\ builder' = DefaultSearchBuilder
  /\ built' = FALSE
  /\ url' = <<>>
  /\ last_world' = None
  /\ SearchOthersUnchanged

Character ==
  /\ ~built
  /\ \E name \in BuilderNames : builder' = character(builder, name)
  /\ UNCHANGED <<built, url, last_world>>
  /\ SearchOthersUnchanged

DatacenterCall ==
  /\ ~built
  /\ \E dc \in BuilderDatacenters :
       /\ builder' = datacenter(builder, dc)
       /\ last_world' = Some([kind |-> "datacenter", arg |-> dc,
                              replaced |-> builder.server.some])
  /\ UNCHANGED <<built, url>>
  /\ SearchOthersUnchanged

ServerCall ==
  /\ ~built
  /\ \E s \in BuilderServers :
       /\ builder' = server(builder, s)
       /\ last_world' = Some([kind |-> "server", arg |-> s,
                              replaced |-> builder.datacenter.some])
  /\ UNCHANGED <<built, url>>
  /\ SearchOthersUnchanged

Lang ==
  /\ ~built
  /\ \E l \in Language : builder' = lang(builder, l)
  /\ UNCHANGED <<built, url, last_world>>
  /\ SearchOthersUnchanged

GrandCompanyCall ==
  /\ ~built
  /\ \E g \in GrandCompany : builder' = grand_company(builder, g)
  /\ UNCHANGED <<built, url, last_world>>
  /\ SearchOthersUnchanged

\* build_url takes self by value: no builder call follows it.
BuildUrl ==
  /\ ~built
  /\ \E lang_order \in IterationOrders(builder.lang), gc_order \in IterationOrders(builder.gc) :
       url' = build_url(builder, lang_order, gc_order)
  /\ built' = TRUE
  /\ UNCHANGED <<builder, last_world>>
  /\ SearchOthersUnchanged

SearchNext ==
  \/ New
  \/ Character
  \/ DatacenterCall
  \/ ServerCall
  \/ Lang
  \/ GrandCompanyCall
  \/ BuildUrl

SpecSearch == SearchInit /\ [][SearchNext]_vars

\* The number of (possibly overlapping) occurrences of pat in s.
CountOccurrences(s, pat) == Cardinality({i \in 1..Len(s) : MatchesAt(s, pat, i)})

\* C2: after any sequence of builder calls at most one of server and
\* datacenter is set, the one that is set holds the argument of the most
\* recent server()/datacenter() call, and the URL build_url returns holds
\* at most one worldname parameter.
C2_ServerDatacenterExclusive ==
  /\ ~(builder.server.some /\ builder.datacenter.some)
  /\ ~last_world.some => (builder.server = None /\ builder.datacenter = None)
  /\ (last_world.some /\ last_world.val.kind = "server") =>
       (builder.server = Some(last_world.val.arg) /\ builder.datacenter = None)
  /\ (last_world.some /\ last_world.val.kind = "datacenter") =>
       (builder.datacenter = Some(last_world.val.arg) /\ builder.server = None)
  /\ built => CountOccurrences(url, Chars("worldname=")) <= 1

\* A URL was built after a server() call replaced an earlier datacenter.
C2_Witness ==
  /\ built
  /\ last_world.some /\ last_world.val.kind = "server" /\ last_world.val.replaced
  /\ CountOccurrences(url, Chars("worldname=")) = 1

----------------------------------------------------------------------------
(* model/profile.rs: the profile extractor                                 *)

\* ensure_node!(doc, search, nth): the nth node the search finds, or
\* SearchError::NodeNotFound naming the search and the position.
EnsureNode(found, what) ==
  IF found.some THEN Ok(found.val) ELSE Err("NodeNotFound", what, <<>>)

\* The nth (0-based) element of a find() iterator.
Nth(nodes, n) == IF n + 1 <= Len(nodes) THEN Some(nodes[n + 1]) ELSE None

\* Node::text() of a node given by its inner HTML: the text nodes in
\* document order; a <br> element contributes nothing.
TextOf(inner_html) == Replace(inner_html, Chars("<br>"), <<>>)

\* Profile::parse_free_company
parse_free_company(doc) ==
  IF doc.free_company.some /\ doc.free_company.val.link.some
  THEN Some(doc.free_company.val.link.val)
  ELSE None

\* Profile::parse_title
parse_title(doc) == doc.title

\* parse_name with an empty name in place of the error.
parse_name_defaulting(doc) == Ok(IF doc.name.some THEN doc.name.val ELSE <<>>)

\* Profile::parse_name
parse_name(doc) == EnsureNode(doc.name, "frame__chara__name(0)")

\* Profile::parse_nameday
parse_nameday(doc) == EnsureNode(doc.birth, "character-block__birth(0)")

\* Profile::parse_guardian
parse_guardian(doc) ==
  LET node == EnsureNode(Nth(doc.block_names, 1), "character-block__name(1)")
  IN IF node.tag = "Ok" THEN Ok(TextOf(node.val)) ELSE node

\* Profile::parse_city_state
parse_city_state(doc) ==
  LET node == EnsureNode(Nth(doc.block_names, 2), "character-block__name(2)")
  IN IF node.tag = "Ok" THEN Ok(TextOf(node.val)) ELSE node

\* Profile::parse_server
parse_server(doc) ==
  LET node == EnsureNode(doc.world, "frame__chara__world(0)")
  IN IF node.tag # "Ok" THEN node
     ELSE LET by_nbsp == Split(node.val, <<NBSP>>)
          IN IF by_nbsp = <<>>
             THEN Err("InvalidData", "Could not find server string.", <<>>)
             ELSE LET by_space == Split(by_nbsp[1], <<" ">>)
                  IN IF by_space = <<>>
                     THEN Err("InvalidData", "Server string was empty", <<>>)
                     ELSE ServerFromStr(by_space[1])

\* Profile::parse_char_info, the decomposition of the block into tokens.
CharInfoTokens(inner_html) ==
  LET block1 == Replace(inner_html, <<" ">>, <<"_">>)
      block2 == Replace(block1, Chars("<br>"), <<" ">>)
      block3 == Replace(block2, Chars("_/_"), <<" ">>)
      pieces == SplitWhitespace(block3)
  IN [i \in 1..Len(pieces) |-> Replace(pieces[i], <<"_">>, <<" ">>)]

\* The three fields of CharInfo, each parse propagating its error.
CharInfoOf(race, clan_text, gender_text) ==
  IF race.tag # "Ok" THEN race
  ELSE LET clan == ClanFromStr(clan_text)
       IN IF clan.tag # "Ok" THEN clan
          ELSE LET gender == GenderFromStr(gender_text)
               IN IF gender.tag # "Ok" THEN gender
                  ELSE Ok([race |-> race.val, clan |-> clan.val, gender |-> gender.val])

\* Profile::parse_char_info
parse_char_info(doc) ==
  LET node == EnsureNode(Nth(doc.block_names, 0), "character-block__name(0)")
  IN IF node.tag # "Ok" THEN node
     ELSE LET char_info == CharInfoTokens(node.val)
          IN IF ~(Len(char_info) = 3 \/ Len(char_info) = 4)
             THEN Err("InvalidData", "character block name", <<>>)
             ELSE IF Len(char_info) = 4
                  THEN CharInfoOf(Ok("Aura"), char_info[3], char_info[4])
                  ELSE CharInfoOf(RaceFromStr(char_info[1]), char_info[2], char_info[3])

\* ParamBranch with the CP test placed ahead of the MP test.
ParamBranchCpFirst(item) ==
  IF item.hp = 1 THEN "HP"
  ELSE IF item.mp = 1 THEN "CP"
  ELSE IF item.gp = 1 THEN "GP"
  ELSE IF item.mp = 1 THEN "MP"
  ELSE ""

\* One list item of the parameters block: which branch of the if/else-if
\* chain it takes ("" when it takes none).
ParamBranch(item) ==
  IF item.hp = 1 THEN "HP"
  ELSE IF item.mp = 1 THEN "MP"
  ELSE IF item.gp = 1 THEN "GP"
  ELSE IF item.mp = 1 THEN "CP"
  ELSE ""

\* The loop of parse_char_param from item i on; acc holds hp and
\* secondary_attribute.  Keeps the first value found for each.
RECURSIVE ParamLoopFirstWins(_, _, _)
ParamLoopFirstWins(items, i, acc) ==
  IF i > Len(items) THEN Ok(acc)
  ELSE LET branch == ParamBranch(items[i])
       IN IF branch = "" THEN ParamLoopFirstWins(items, i + 1, acc)
          ELSE LET span == EnsureNode(items[i].span, "span(0)")
               IN IF span.tag # "Ok" THEN span
                  ELSE LET value == ParseU32(span.val)
                       IN IF value.tag # "Ok" THEN value
                          ELSE IF branch = "HP"
                               THEN ParamLoopFirstWins(items, i + 1,
                                      IF acc.hp.some THEN acc
                                      ELSE [acc EXCEPT !.hp = Some(value.val)])
                               ELSE ParamLoopFirstWins(items, i + 1,
                                      IF acc.secondary_attribute.some THEN acc
                                      ELSE [acc EXCEPT !.secondary_attribute =
                                              Some([kind |-> branch, value |-> value.val])])

\* The loop of parse_char_param from item i on; acc holds hp and
\* secondary_attribute.
RECURSIVE ParamLoop(_, _, _)
ParamLoop(items, i, acc) ==
  IF i > Len(items) THEN Ok(acc)
  ELSE LET branch == ParamBranch(items[i])
       IN IF branch = "" THEN ParamLoop(items, i + 1, acc)
          ELSE LET span == EnsureNode(items[i].span, "span(0)")
               IN IF span.tag # "Ok" THEN span
                  ELSE LET value == ParseU32(span.val)
                       IN IF value.tag # "Ok" THEN value
                          ELSE IF branch = "HP"
                               THEN ParamLoop(items, i + 1, [acc EXCEPT !.hp = Some(value.val)])
                               ELSE ParamLoop(items, i + 1,
                                      [acc EXCEPT !.secondary_attribute =
                                         Some([kind |-> branch, value |-> value.val])])

\* Profile::parse_char_param
parse_char_param(doc) ==
  LET attr_block == EnsureNode(doc.param, "character__param(0)")
  IN IF attr_block.tag # "Ok" THEN attr_block
     ELSE LET found == ParamLoop(attr_block.val, 1, [hp |-> None, secondary_attribute |-> None])
          IN IF found.tag # "Ok" THEN found
             ELSE IF ~found.val.hp.some THEN Err("NodeNotFound", "HP not found", <<>>)
             ELSE IF ~found.val.secondary_attribute.some
                  THEN Err("InvalidData", "MP or GP not found", <<>>)
             ELSE Ok([hp |-> found.val.hp.val, mp |-> found.val.secondary_attribute.val])

\* The attribute map: a keyed container, last write wins.
AttributesNew == <<>>
AttributesInsert(attributes, name, value) ==
  [k \in DOMAIN attributes \cup {name} |-> IF k = name THEN value ELSE attributes[k]]

RECURSIVE AttributesLoop(_, _, _)
AttributesLoop(rows, i, attributes) ==
  IF i > Len(rows) THEN Ok(attributes)
  ELSE LET name == EnsureNode(rows[i].span, "span(0)")
       IN IF name.tag # "Ok" THEN name
          ELSE LET td == EnsureNode(rows[i].td, "td(0)")
               IN IF td.tag # "Ok" THEN td
                  ELSE LET level == ParseU16(td.val)
                       IN IF level.tag # "Ok" THEN level
                          ELSE AttributesLoop(rows, i + 1,
                                 AttributesInsert(attributes, name.val, [level |-> level.val]))

\* Profile::parse_attributes
parse_attributes(doc) ==
  LET block == EnsureNode(doc.profile_data, "character__profile__data(0)")
  IN IF block.tag # "Ok" THEN block
     ELSE AttributesLoop(block.val, 1, AttributesNew)

\* CharacterImages::parse
CharacterImagesParse(doc) ==
  LET face == EnsureNode(doc.face, "character-block__face(0)")
  IN IF face.tag # "Ok" THEN face
     ELSE IF ~face.val.src.some THEN Err("UrlMissing", "character-block__face", <<>>)
     ELSE IF ~doc.popup.some THEN Err("NodeMissing", "js__image_popup", <<>>)
     ELSE IF ~doc.popup.val.href.some THEN Err("UrlMissing", "js__image_popup", <<>>)
     ELSE Ok([avatar_small |-> face.val.src.val, full_body |-> doc.popup.val.href.val])

\* The class catalog: the class names as the class page displays them,
\* matched case-insensitively; an unknown name is a typed parse error
\* carrying the offending text.
ClassTypeFromStrArms ==
  {<<"GLADIATOR", "Gladiator">>, <<"PALADIN", "Paladin">>, <<"MARAUDER", "Marauder">>,
   <<"WARRIOR", "Warrior">>, <<"DARK KNIGHT", "DarkKnight">>, <<"GUNBREAKER", "Gunbreaker">>,
   <<"CONJURER", "Conjurer">>, <<"WHITE MAGE", "WhiteMage">>, <<"SCHOLAR", "Scholar">>,
   <<"ASTROLOGIAN", "Astrologian">>, <<"PUGILIST", "Pugilist">>, <<"MONK", "Monk">>,
   <<"LANCER", "Lancer">>, <<"DRAGOON", "Dragoon">>, <<"ROGUE", "Rogue">>,
   <<"NINJA", "Ninja">>, <<"SAMURAI", "Samurai">>, <<"ARCHER", "Archer">>,
   <<"BARD", "Bard">>, <<"MACHINIST", "Machinist">>, <<"DANCER", "Dancer">>,
   <<"THAUMATURGE", "Thaumaturge">>, <<"BLACK MAGE", "BlackMage">>,
   <<"ARCANIST", "Arcanist">>, <<"SUMMONER", "Summoner">>, <<"RED MAGE", "RedMage">>,
   <<"BLUE MAGE", "BlueMage">>, <<"CARPENTER", "Carpenter">>, <<"BLACKSMITH", "Blacksmith">>,
   <<"ARMORER", "Armorer">>, <<"GOLDSMITH", "Goldsmith">>,
   <<"LEATHERWORKER", "Leatherworker">>, <<"WEAVER", "Weaver">>,
   <<"ALCHEMIST", "Alchemist">>, <<"CULINARIAN", "Culinarian">>, <<"MINER", "Miner">>,
   <<"BOTANIST", "Botanist">>, <<"FISHER", "Fisher">>}

ClassTypeFromStr(s) ==
  LET x == ToUppercase(s)
      v == ArmFor(ClassTypeFromStrArms, x)
  IN IF v # "" THEN Ok(v) ELSE Err("ClassTypeError", "", x)

\* The class map: a keyed container from class identifier to an optional
\* ClassInfo; insert overwrites, get of a missing key is None.
ClassesNew == <<>>
ClassesInsert(classes, class, classinfo) ==
  [k \in DOMAIN classes \cup {class} |-> IF k = class THEN classinfo ELSE classes[k]]
ClassesGet(classes, class) == IF class \in DOMAIN classes THEN classes[class] ELSE None

\* The arms of the match in parse_classes: advanced job, base class.
AdvancedBaseArms ==
  {<<"Paladin", "Gladiator">>, <<"Warrior", "Marauder">>, <<"WhiteMage", "Conjurer">>,
   <<"Monk", "Pugilist">>, <<"Dragoon", "Lancer">>, <<"Ninja", "Rogue">>,
   <<"Bard", "Archer">>, <<"BlackMage", "Thaumaturge">>, <<"Summoner", "Arcanist">>}

\* The match on the parsed class and the insert that follows it.
InsertClass(classes, class, classinfo) ==
  LET mirrored ==
        IF \E a \in AdvancedBaseArms : a[1] = class
        THEN ClassesInsert(classes, (CHOOSE a \in AdvancedBaseArms : a[1] = class)[2], classinfo)
        ELSE classes
  IN ClassesInsert(mirrored, class, classinfo)

\* ParseXp without the removal of the ',' separators.
ParseXpKeepingSeparators(side) ==
  IF side = Chars("--") THEN Ok(None)
  ELSE IF ParseU32(side).tag = "Ok" THEN Ok(Some(ParseU32(side).val)) ELSE ParseU32(side)

\* One side of the "current / max" experience text.
ParseXp(side) ==
  IF side = Chars("--") THEN Ok(None)
  ELSE LET value == ParseU32(Replace(side, <<",">>, <<>>))
       IN IF value.tag = "Ok" THEN Ok(Some(value.val)) ELSE value

\* ParseClassInfo with the experience node looked up ahead of the match on
\* the level text.
ParseClassInfoExpFirst(item) ==
  IF ~item.level.some THEN Err("NodeNotFound", "character__job__level(0)", <<>>)
  ELSE IF ~item.exp.some THEN Err("NodeNotFound", "character__job__exp(0)", <<>>)
  ELSE IF item.level.val = <<"-">> THEN Ok(None)
  ELSE IF Len(Split(item.exp.val, Chars(" / "))) < 2
       THEN Err("InvalidData", "character__job__exp", <<>>)
  ELSE IF ParseU32(item.level.val).tag # "Ok" THEN ParseU32(item.level.val)
  ELSE IF ParseXp(Split(item.exp.val, Chars(" / "))[1]).tag # "Ok"
       THEN ParseXp(Split(item.exp.val, Chars(" / "))[1])
  ELSE IF ParseXp(Split(item.exp.val, Chars(" / "))[2]).tag # "Ok"
       THEN ParseXp(Split(item.exp.val, Chars(" / "))[2])
  ELSE Ok(Some([level |-> ParseU32(item.level.val).val,
                current_xp |-> ParseXp(Split(item.exp.val, Chars(" / "))[1]).val,
                max_xp |-> ParseXp(Split(item.exp.val, Chars(" / "))[2]).val]))

\* The classinfo of one job row: Ok(None) for a locked job, Ok(Some(info))
\* for an unlocked one.
ParseClassInfo(item) ==
  LET level_node == EnsureNode(item.level, "character__job__level(0)")
  IN IF level_node.tag # "Ok" THEN level_node
     ELSE IF level_node.val = <<"-">> THEN Ok(None)
     ELSE LET exp_node == EnsureNode(item.exp, "character__job__exp(0)")
          IN IF exp_node.tag # "Ok" THEN exp_node
             ELSE LET parts == Split(exp_node.val, Chars(" / "))
                  IN IF Len(parts) < 1 THEN Err("InvalidData", "character__job__exp", <<>>)
                     ELSE IF Len(parts) < 2 THEN Err("InvalidData", "character__job__exp", <<>>)
                     ELSE LET level == ParseU32(level_node.val)
                          IN IF level.tag # "Ok" THEN level
                             ELSE LET current_xp == ParseXp(parts[1])
                                  IN IF current_xp.tag # "Ok" THEN current_xp
                                     ELSE LET max_xp == ParseXp(parts[2])
                                          IN IF max_xp.tag # "Ok" THEN max_xp
                                             ELSE Ok(Some([level |-> level.val,
                                                           current_xp |-> current_xp.val,
                                                           max_xp |-> max_xp.val]))

\* ParseClassRow with a row whose level or experience fails left out of the
\* map instead of ending the extraction.
ParseClassRowSkipping(classes, item) ==
  IF ~item.name.some THEN Err("NodeNotFound", "character__job__name(0)", <<>>)
  ELSE IF ParseClassInfo(item).tag # "Ok" THEN Ok(classes)
  ELSE IF ClassTypeFromStr(Split(item.name.val, Chars(" / "))[1]).tag # "Ok"
       THEN ClassTypeFromStr(Split(item.name.val, Chars(" / "))[1])
  ELSE Ok(InsertClass(classes, ClassTypeFromStr(Split(item.name.val, Chars(" / "))[1]).val,
                      ParseClassInfo(item).val))

\* The body of the inner loop of parse_classes for one job row.
ParseClassRow(classes, item) ==
  LET name_node == EnsureNode(item.name, "character__job__name(0)")
  IN IF name_node.tag # "Ok" THEN name_node
     ELSE LET classinfo == ParseClassInfo(item)
          IN IF classinfo.tag # "Ok" THEN classinfo
             ELSE LET names == Split(name_node.val, Chars(" / "))
                  IN IF names = <<>> THEN Err("InvalidData", "character__job__name", <<>>)
                     ELSE LET class == ClassTypeFromStr(names[1])
                          IN IF class.tag # "Ok" THEN class
                             ELSE Ok(InsertClass(classes, class.val, classinfo.val))

RECURSIVE ClassRowsLoop(_, _, _)
ClassRowsLoop(items, i, classes) ==
  IF i > Len(items) THEN Ok(classes)
  ELSE LET next == ParseClassRow(classes, items[i])
       IN IF next.tag # "Ok" THEN next ELSE ClassRowsLoop(items, i + 1, next.val)

\* The number of content groups parse_classes walks: take(4).
ContentListsTaken == 4

RECURSIVE ClassListsLoop(_, _, _)
ClassListsLoop(lists, i, classes) ==
  IF i > Len(lists) \/ i > ContentListsTaken THEN Ok(classes)
  ELSE LET next == ClassRowsLoop(lists[i], 1, classes)
       IN IF next.tag # "Ok" THEN next ELSE ClassListsLoop(lists, i + 1, next.val)

\* Profile::parse_classes
parse_classes(doc) == ClassListsLoop(doc, 1, ClassesNew)

\* The ten fallible steps of parse_profile, numbered in the order the
\* function evaluates them: char_info, char_param, name, nameday, guardian,
\* city_state, server, attributes, classes, character_images.
ProfileSteps(doc, classes) ==
  <<parse_char_info(doc), parse_char_param(doc), parse_name(doc),
    parse_nameday(doc), parse_guardian(doc), parse_city_state(doc),
    parse_server(doc), parse_attributes(doc), parse_classes(classes),
    CharacterImagesParse(doc)>>

\* ProfileSteps with the attribute step's error replaced by an empty map.
ProfileStepsDefaulting(doc, classes) ==
  <<parse_char_info(doc), parse_char_param(doc), parse_name(doc),
    parse_nameday(doc), parse_guardian(doc), parse_city_state(doc),
    parse_server(doc),
    IF parse_attributes(doc).tag = "Ok" THEN parse_attributes(doc) ELSE Ok(AttributesNew),
    parse_classes(classes), CharacterImagesParse(doc)>>

\* The order in which the `?` operators of parse_profile are reached.
ProfileStepOrder == <<1, 2, 3, 4, 5, 6, 7, 8, 9, 10>>

\* An order with the name lookups ahead of the two block parses.
ProfileStepOrderNameFirst == <<3, 4, 5, 6, 7, 1, 2, 8, 9, 10>>

\* The step whose `?` returns: the first one, in the given order, that is
\* not Ok.
FirstFailedStep(steps, order) ==
  order[CHOOSE i \in 1..Len(order) :
          /\ steps[order[i]].tag # "Ok"
          /\ \A j \in 1..(i - 1) : steps[order[j]].tag = "Ok"]

\* The `?` chain and the Profile literal that ends parse_profile.
AssembleProfile(user_id, doc, steps, order) ==
  IF \E i \in 1..Len(order) : steps[order[i]].tag # "Ok"
  THEN steps[FirstFailedStep(steps, order)]
  ELSE Ok([user_id |-> user_id,
           title |-> parse_title(doc),
           free_company |-> parse_free_company(doc),
           name |-> steps[3].val,
           nameday |-> steps[4].val,
           guardian |-> steps[5].val,
           city_state |-> steps[6].val,
           server |-> steps[7].val,
           race |-> steps[1].val.race,
           clan |-> steps[1].val.clan,
           gender |-> steps[1].val.gender,
           hp |-> steps[2].val.hp,
           mp_or_gp |-> steps[2].val.mp,
           attributes |-> steps[8].val,
           classes |-> steps[9].val,
           character_images |-> steps[10].val])

\* parse_profile with the attribute step's error replaced by an empty map.
parse_profile_defaulting(user_id, doc, classes) ==
  AssembleProfile(user_id, doc, ProfileStepsDefaulting(doc, classes), ProfileStepOrder)

\* parse_profile with the name lookups ahead of the two block parses.
parse_profile_name_first(user_id, doc, classes) ==
  AssembleProfile(user_id, doc, ProfileSteps(doc, classes), ProfileStepOrderNameFirst)

\* Profile::parse_profile: the steps in the order the function evaluates
\* them, each `?` returning the step's error at once.
parse_profile(user_id, doc, classes) ==
  AssembleProfile(user_id, doc, ProfileSteps(doc, classes), ProfileStepOrder)

----------------------------------------------------------------------------
(* Character pages and class pages handed to parse_profile                 *)

HpItem(text) == [hp |-> 1, mp |-> 0, gp |-> 0, span |-> Some(Chars(text))]
MpItem(text) == [hp |-> 0, mp |-> 1, gp |-> 0, span |-> Some(Chars(text))]
GpItem(text) == [hp |-> 0, mp |-> 0, gp |-> 1, span |-> Some(Chars(text))]

JobRow(name, level, exp) ==
  [name |-> Some(Chars(name)), level |-> Some(Chars(level)), exp |-> Some(Chars(exp))]

GoodBlockNames ==
  <<Chars("Hyur<br>Midlander / ") \o <<MALE>>, Chars("Halone"), Chars("Limsa")>>

GoodMainDoc ==
  [name |-> Some(Chars("Al Bo")),
   title |-> Some(Chars("Sir")),
   free_company |-> Some([link |-> Some(Chars("FC"))]),
   birth |-> Some(Chars("3rd Sun")),
   block_names |-> GoodBlockNames,
   world |-> Some(Chars("Odin") \o <<NBSP>> \o Chars("[Light]")),
   param |-> Some(<<HpItem("100"), MpItem("50")>>),
   profile_data |-> Some(<<[span |-> Some(Chars("Mind")), td |-> Some(Chars("219"))]>>),
   face |-> Some([src |-> Some(Chars("f.jpg"))]),
   popup |-> Some([href |-> Some(Chars("b.jpg"))])]

GoodClassesDoc ==
  <<<<JobRow("Gladiator", "22", "0 / 30,600"), JobRow("Warrior", "60", "-- / --")>>,
    <<JobRow("Dancer", "-", "-- / --")>>>>

UserIds == {11908971}

\* The alternatives of each region of the character page: well-formed, and
\* the ways it makes its extraction step fail.
NameAlts == {GoodMainDoc.name, None}
BirthAlts == {GoodMainDoc.birth, None}
BlockNamesAlts ==
  {GoodBlockNames, <<>>, SubSeq(GoodBlockNames, 1, 1), SubSeq(GoodBlockNames, 1, 2),
   [GoodBlockNames EXCEPT ![1] = Chars("Hyur<br>Midlander")],
   [GoodBlockNames EXCEPT ![1] = Chars("Orc<br>Midlander / ") \o <<MALE>>]}
WorldAlts == {GoodMainDoc.world, None, Some(Chars("Gondor [Light]"))}
ParamAlts ==
  {GoodMainDoc.param, None, Some(<<MpItem("50")>>), Some(<<HpItem("many"), MpItem("50")>>)}
ProfileDataAlts ==
  {GoodMainDoc.profile_data, None, Some(<<[span |-> Some(Chars("Mind")), td |-> Some(Chars("x"))]>>)}
FaceAlts == {GoodMainDoc.face, None, Some([src |-> None])}
PopupAlts == {GoodMainDoc.popup, None, Some([href |-> None])}
ClassesDocAlts == {GoodClassesDoc, <<<<JobRow("Jester", "22", "0 / 30,600")>>>>}

MainDocAlts ==
  {[GoodMainDoc EXCEPT !.name = n, !.birth = b, !.block_names = k, !.world = w,
                       !.param = p, !.profile_data = d, !.face = f, !.popup = i] :
     n \in NameAlts, b \in BirthAlts, k \in BlockNamesAlts, w \in WorldAlts,
     p \in ParamAlts, d \in ProfileDataAlts, f \in FaceAlts, i \in PopupAlts}

OptionalAlts ==
  {[GoodMainDoc EXCEPT !.title = t, !.free_company = c] :
     t \in {GoodMainDoc.title, None},
     c \in {GoodMainDoc.free_company, None, Some([link |-> None])}}

\* Race/clan/gender blocks: up to MaxCharInfoWords words, joined by <br>,
\* the last one by <br> or by " / ".
MaxCharInfoWords == 4
CharInfoWords ==
  {Chars("Au"), Chars("Ra"), Chars("Hyur"), Chars("Raen"), <<FEMALE>>}

RECURSIVE JoinWords(_, _)
JoinWords(words, last_separator) ==
  IF Len(words) = 1 THEN words[1]
  ELSE IF Len(words) = 2 THEN words[1] \o last_separator \o words[2]
  ELSE words[1] \o Chars("<br>") \o JoinWords(Tail(words), last_separator)

CharInfoBlocks ==
  {JoinWords(words, sep) :
     words \in UNION {[1..n -> CharInfoWords] : n \in 1..MaxCharInfoWords},
     sep \in {Chars("<br>"), Chars(" / ")}}
  \cup {Chars("Au Ra<br>Raen / ") \o <<FEMALE>>, Chars("Au Ra<br>Raen<br>Hyur / ") \o <<FEMALE>>}

CharInfoDocs ==
  {[GoodMainDoc EXCEPT !.block_names[1] = block] : block \in CharInfoBlocks}

\* Parameter blocks: up to MaxParamItems list items.
MaxParamItems == 4
ParamItems ==
  {HpItem("100"), HpItem("200"), MpItem("50"), GpItem("60"),
   [hp |-> 0, mp |-> 0, gp |-> 0, span |-> Some(Chars("9"))],
   [hp |-> 1, mp |-> 1, gp |-> 0, span |-> Some(Chars("90"))],
   [hp |-> 2, mp |-> 1, gp |-> 0, span |-> Some(Chars("80"))],
   [hp |-> 1, mp |-> 0, gp |-> 0, span |-> None]}

ParamDocs ==
  {[GoodMainDoc EXCEPT !.param = Some(items)] :
     items \in UNION {[1..n -> ParamItems] : n \in 0..MaxParamItems}}

ProfileInit(docs, class_docs) ==
  /\ ResultsIdle /\ CatalogIdle /\ RemoteIdle
  /\ main_doc \in docs
  /\ classes_doc \in class_docs
  /\ profile = NotStarted
  /\ class_map = Idle
  /\ builder = Idle /\ built = Idle /\ url = Idle /\ last_world = Idle
  /\ world_row = Idle /\ status = Idle
  /\ lb_row = Idle /\ lb_result = Idle

\* Profile::parse_profile(user_id, &main_doc, &classes_doc)
ParseProfile ==
  /\ profile = NotStarted
  /\ \E user_id \in UserIds : profile' = parse_profile(user_id, main_doc, classes_doc)
  /\ UNCHANGED <<main_doc, classes_doc, class_map>>
  /\ UNCHANGED <<search_vars, status_vars, standings_vars, results_vars, catalog_vars, remote_vars>>

ProfileNext == ParseProfile

SpecProfile ==
  ProfileInit(MainDocAlts \cup OptionalAlts, ClassesDocAlts) /\ [][ProfileNext]_vars

SpecCharInfo == ProfileInit(CharInfoDocs, {GoodClassesDoc}) /\ [][ProfileNext]_vars

SpecCharParam == ProfileInit(ParamDocs, {GoodClassesDoc}) /\ [][ProfileNext]_vars

----------------------------------------------------------------------------
(* Claims about the profile extractor                                      *)

\* The outcome of one extraction step on the documents of the state.
StepResult(step) ==
  CASE step = "char_info" -> parse_char_info(main_doc)
    [] step = "char_param" -> parse_char_param(main_doc)
    [] step = "name" -> parse_name(main_doc)
    [] step = "nameday" -> parse_nameday(main_doc)
    [] step = "guardian" -> parse_guardian(main_doc)
    [] step = "city_state" -> parse_city_state(main_doc)
    [] step = "server" -> parse_server(main_doc)
    [] step = "attributes" -> parse_attributes(main_doc)
    [] step = "classes" -> parse_classes(classes_doc)
    [] step = "images" -> CharacterImagesParse(main_doc)

RequiredSteps ==
  {"char_info", "char_param", "name", "nameday", "guardian", "city_state", "server",
   "attributes", "classes", "images"}

Returned == profile # NotStarted

\* The error of the first step of order that fails, if one fails.
FirstFailure(order) ==
  LET failing == {i \in 1..Len(order) : StepResult(order[i]).tag # "Ok"}
  IN IF failing = {} THEN None
     ELSE Some(StepResult(order[CHOOSE i \in failing : \A j \in failing : i <= j]))

\* C1: profile extraction is all-or-nothing: the call returns a Profile
\* exactly when every required step succeeded, the Profile then holds every
\* step's value, and in every other case it returns an error and no Profile.
C1_AllOrNothing ==
  Returned =>
    /\ profile.tag \in {"Ok", "Err"}
    /\ (profile.tag = "Ok") <=> (\A step \in RequiredSteps : StepResult(step).tag = "Ok")
    /\ profile.tag = "Ok" =>
         /\ profile.val.name = StepResult("name").val
         /\ profile.val.nameday = StepResult("nameday").val
         /\ profile.val.guardian = StepResult("guardian").val
         /\ profile.val.city_state = StepResult("city_state").val
         /\ profile.val.server = StepResult("server").val
         /\ profile.val.race = StepResult("char_info").val.race
         /\ profile.val.clan = StepResult("char_info").val.clan
         /\ profile.val.gender = StepResult("char_info").val.gender
         /\ profile.val.hp = StepResult("char_param").val.hp
         /\ profile.val.mp_or_gp = StepResult("char_param").val.mp
         /\ profile.val.attributes = StepResult("attributes").val
         /\ profile.val.classes = StepResult("classes").val
         /\ profile.val.character_images = StepResult("images").val

\* The call returned an error although only the attribute table was broken.
C1_Witness ==
  /\ Returned
  /\ profile.tag = "Err"
  /\ \A step \in RequiredSteps : (StepResult(step).tag # "Ok") <=> (step = "attributes")

\* C9 as claimed: a main document that lacks the name node always yields
\* SearchError::NodeNotFound, whatever the state of its other regions.
C9_NameMissingIsNodeNotFound ==
  (Returned /\ ~main_doc.name.some) =>
    (profile.tag = "Err" /\ profile.variant = "NodeNotFound")

\* C9 as amended: a main document that lacks the name node never yields a
\* Profile; the error is NodeNotFound for the name node when the
\* race/clan/gender step and the HP/secondary-resource step succeed, and
\* otherwise the error of the first of those two steps that fails.
C9_NameMissingIsError ==
  (Returned /\ ~main_doc.name.some) =>
    /\ profile.tag = "Err"
    /\ (StepResult("char_info").tag = "Ok" /\ StepResult("char_param").tag = "Ok") =>
         profile = Err("NodeNotFound", "frame__chara__name(0)", <<>>)
    /\ StepResult("char_info").tag # "Ok" => profile = StepResult("char_info")
    /\ (StepResult("char_info").tag = "Ok" /\ StepResult("char_param").tag # "Ok") =>
         profile = StepResult("char_param")

\* The name node is missing, every other region is well-formed, and the
\* call returned.
C9_Witness ==
  /\ Returned
  /\ ~main_doc.name.some
  /\ \A step \in RequiredSteps \ {"name"} : StepResult(step).tag = "Ok"

\* C10 as claimed: the error returned is that of the earliest failing step
\* in the order name, nameday/guardian/city-state, server, race/clan/gender,
\* HP/secondary resource, attributes, images.
ClaimedStepOrder ==
  <<"name", "nameday", "guardian", "city_state", "server", "char_info", "char_param",
    "attributes", "images">>

C10_ClaimedOrder ==
  (Returned /\ FirstFailure(ClaimedStepOrder).some /\ StepResult("classes").tag = "Ok") =>
    profile = FirstFailure(ClaimedStepOrder).val

\* C10 as amended: the error returned is that of the earliest failing step
\* in the order race/clan/gender, HP/secondary resource, name, nameday,
\* guardian, city-state, server, attributes, classes, images.
EvaluationOrder ==
  <<"char_info", "char_param", "name", "nameday", "guardian", "city_state", "server",
    "attributes", "classes", "images">>

C10_EvaluationOrder ==
  (Returned /\ FirstFailure(EvaluationOrder).some) =>
    profile = FirstFailure(EvaluationOrder).val

\* Both the name node and the race/clan/gender block are broken, and the
\* call returned.
C10_Witness ==
  /\ Returned
  /\ StepResult("name").tag # "Ok"
  /\ StepResult("char_info").tag # "Ok"
  /\ StepResult("images").tag # "Ok"

\* The tokens parse_char_info decomposes the race/clan/gender block into.
BlockTokens == CharInfoTokens(main_doc.block_names[1])

ParamBlockItems == main_doc.param.val
HpMatches == {i \in 1..Len(ParamBlockItems) : ParamBlockItems[i].hp = 1}
SecondaryMatches ==
  {i \in 1..Len(ParamBlockItems) :
     /\ ParamBlockItems[i].hp # 1
     /\ (ParamBlockItems[i].mp = 1 \/ ParamBlockItems[i].gp = 1)}
SpanValue(i) == ParseU32(ParamBlockItems[i].span.val).val
First(matches) == CHOOSE i \in matches : \A j \in matches : i <= j
Last(matches) == CHOOSE i \in matches : \A j \in matches : j <= i

\* C5 as claimed: of several items matching the HP marker the first one in
\* document order gives the HP returned, and of several items matching a
\* secondary-resource marker the first one gives the secondary resource.
C5_FirstMatchWins ==
  (Returned /\ profile.tag = "Ok") =>
    /\ profile.val.hp = SpanValue(First(HpMatches))
    /\ profile.val.mp_or_gp.value = SpanValue(First(SecondaryMatches))

\* C5 as amended: of several items matching the HP marker the last one in
\* document order gives the HP returned, and of several items matching a
\* secondary-resource marker the last one gives the secondary resource.
C5_LastMatchWins ==
  (Returned /\ profile.tag = "Ok") =>
    /\ HpMatches # {} /\ SecondaryMatches # {}
    /\ profile.val.hp = SpanValue(Last(HpMatches))
    /\ profile.val.mp_or_gp.value = SpanValue(Last(SecondaryMatches))
    /\ profile.val.mp_or_gp.kind =
         (IF ParamBlockItems[Last(SecondaryMatches)].mp = 1 THEN "MP" ELSE "GP")

\* Two items match the HP marker with different values, two items match a
\* secondary-resource marker with different values, and the call succeeded.
C5_Witness ==
  /\ Returned /\ profile.tag = "Ok"
  /\ Cardinality(HpMatches) >= 2 /\ Cardinality(SecondaryMatches) >= 2
  /\ SpanValue(First(HpMatches)) # SpanValue(Last(HpMatches))
  /\ SpanValue(First(SecondaryMatches)) # SpanValue(Last(SecondaryMatches))

----------------------------------------------------------------------------
(* Class pages handed to parse_classes                                     *)

MaxJobRows == 2

JobNames ==
  {"Paladin", "Gladiator", "Paladin / Gladiator", "Summoner", "Arcanist", "Hero"}

JobProgress == {<<"50", "-- / --">>, <<"22", "0 / 30,600">>, <<"-", "-- / --">>}

JobRows ==
  {JobRow(n, p[1], p[2]) : n \in JobNames, p \in JobProgress}
    \cup {[name |-> Some(Chars("Arcanist")), level |-> Some(Chars("30")), exp |-> None]}

JobRowSeqs == UNION {[1..n -> JobRows] : n \in 0..MaxJobRows}

\* The rows of a class page in one content group, or one group per row.
ClassDocs ==
  {<<rows>> : rows \in JobRowSeqs}
    \cup {[g \in 1..Len(rows) |-> <<rows[g]>>] : rows \in JobRowSeqs}

ClassesInit ==
  /\ ResultsIdle /\ CatalogIdle /\ RemoteIdle
  /\ classes_doc \in ClassDocs
  /\ class_map = NotStarted
  /\ main_doc = Idle /\ profile = Idle
  /\ builder = Idle /\ built = Idle /\ url = Idle /\ last_world = Idle
  /\ world_row = Idle /\ status = Idle
  /\ lb_row = Idle /\ lb_result = Idle

\* Profile::parse_classes(&classes_doc)
ParseClasses ==
  /\ class_map = NotStarted
  /\ class_map' = parse_classes(classes_doc)
  /\ UNCHANGED <<main_doc, classes_doc, profile>>
  /\ UNCHANGED <<search_vars, status_vars, standings_vars, results_vars, catalog_vars, remote_vars>>

ClassesNext == ParseClasses

SpecClasses == ClassesInit /\ [][ClassesNext]_vars

----------------------------------------------------------------------------
(* Claims about the class-progress extractor                               *)

\* The job rows parse_classes walks, as <<group, index>> positions.
WalkedRows ==
  {pos \in (1..Len(classes_doc)) \X (1..MaxJobRows) :
     pos[1] <= ContentListsTaken /\ pos[2] <= Len(classes_doc[pos[1]])}

\* A walked row names the job and carries a level other than "-".
UnlockedRowFor(job) ==
  \E pos \in WalkedRows :
    LET row == classes_doc[pos[1]][pos[2]]
    IN /\ row.name.some /\ row.level.some
       /\ row.level.val # <<"-">>
       /\ ClassTypeFromStr(Split(row.name.val, Chars(" / "))[1]) = Ok(job)

\* C3: whenever parse_classes succeeds and a row for the advanced job of one
\* of the nine advanced/base pairs was present and unlocked, the returned
\* map gives the same answer for the advanced job and for its base class.
C3_AdvancedEqualsBase ==
  class_map.tag = "Ok" =>
    \A a \in AdvancedBaseArms :
      UnlockedRowFor(a[1]) =>
        ClassesGet(class_map.val, a[1]) = ClassesGet(class_map.val, a[2])

----------------------------------------------------------------------------
(* World status: src/model/server.rs                                       *)

\* impl FromStr for ServerCategory
ServerCategoryFromStr(s) ==
  IF Trim(s) = Chars("Standard") THEN Ok("Standard")
  ELSE IF Trim(s) = Chars("Preferred") THEN Ok("Preferred")
  ELSE IF Trim(s) = Chars("Congested") THEN Ok("Congested")
  ELSE IF Trim(s) = Chars("New") THEN Ok("New")
  ELSE Err("CategoryParseError", "", Trim(s))

ServerCategoryDisplayArms ==
  {<<"Standard", "Standard">>, <<"Preferred", "Preferred">>,
   <<"Congested", "Conjested">>, <<"New", "New">>}

\* impl Display for ServerCategory
ServerCategoryDisplay(c) == Chars((CHOOSE a \in ServerCategoryDisplayArms : a[1] = c)[2])

\* ServerCategory::parse_from
ServerCategoryParseFrom(node) ==
  IF ~node.category.some THEN Err("NodeMissing", "world-list__world_category", <<>>)
  ELSE ServerCategoryFromStr(node.category.val)

\* CharacterAvailability::parse_from
CharacterAvailabilityParseFrom(node) ==
  IF node.available THEN Ok("CharactersAvailable")
  ELSE IF node.unavailable THEN Ok("CharactersUnavailable")
  ELSE Err("NodeMissing", "world-ic__unavailable", <<>>)

\* The closures of ServerStatus::parse_from: the status built from the
\* row's category and availability, each `?` returning its error from the
\* closure.
StatusWith(kind, node) ==
  IF ServerCategoryParseFrom(node).tag # "Ok" THEN ServerCategoryParseFrom(node)
  ELSE IF CharacterAvailabilityParseFrom(node).tag # "Ok"
       THEN CharacterAvailabilityParseFrom(node)
       ELSE Ok([kind |-> kind,
                category |-> ServerCategoryParseFrom(node).val,
                availability |-> CharacterAvailabilityParseFrom(node).val])

\* Result::or
ResultOr(a, b) == IF a.tag = "Ok" THEN a ELSE b

\* Option::ok_or(NodeMissing { node }) followed by map(closure): the outer
\* Result holds the closure's Result.
MarkerThen(present, marker, inner) ==
  IF present THEN Ok(inner) ELSE Err("NodeMissing", marker, <<>>)

\* The trailing `?` of ServerStatus::parse_from: an outer error returns, an
\* outer Ok yields the closure's Result as the function's value.
Question(outer) == IF outer.tag = "Ok" THEN outer.val ELSE outer

\* ServerStatus::parse_from with the closure's Result flattened into the
\* outer one, so that a closure error lets the next marker be tried.
ServerStatusParseFromFlattened(node) ==
  ResultOr(ResultOr(Question(MarkerThen(node.ic1, "world-ic__1", StatusWith("Online", node))),
                    Question(MarkerThen(node.ic2, "world-ic__2",
                                        StatusWith("PartialMaintenance", node)))),
           Question(MarkerThen(node.ic3, "world-ic__3", Ok([kind |-> "Maintenance"]))))

\* ServerStatus::parse_from with a maintenance arm that reads the row's
\* category and availability as the other two arms do.
ServerStatusParseFromReadingRow(node) ==
  Question(
    ResultOr(ResultOr(MarkerThen(node.ic1, "world-ic__1", StatusWith("Online", node)),
                      MarkerThen(node.ic2, "world-ic__2",
                                 StatusWith("PartialMaintenance", node))),
             MarkerThen(node.ic3, "world-ic__3",
                        IF StatusWith("Maintenance", node).tag = "Ok"
                        THEN Ok([kind |-> "Maintenance"])
                        ELSE StatusWith("Maintenance", node))))

\* ServerStatus::parse_from
ServerStatusParseFrom(node) ==
  Question(
    ResultOr(ResultOr(MarkerThen(node.ic1, "world-ic__1", StatusWith("Online", node)),
                      MarkerThen(node.ic2, "world-ic__2",
                                 StatusWith("PartialMaintenance", node))),
             MarkerThen(node.ic3, "world-ic__3", Ok([kind |-> "Maintenance"]))))

\* The texts of the category cell of a world row.
CategoryTexts ==
  {Chars("Standard"), Chars(" Preferred "), Chars("Congested"), Chars("New"),
   Chars("standard"), Chars("Conjested"), <<>>}

WorldRows ==
  [ic1 : BOOLEAN, ic2 : BOOLEAN, ic3 : BOOLEAN,
   category : {None} \cup {Some(t) : t \in CategoryTexts},
   available : BOOLEAN, unavailable : BOOLEAN]

StatusInit ==
  /\ ResultsIdle /\ CatalogIdle /\ RemoteIdle
  /\ world_row \in WorldRows
  /\ status = NotStarted
  /\ builder = Idle /\ built = Idle /\ url = Idle /\ last_world = Idle
  /\ main_doc = Idle /\ classes_doc = Idle /\ profile = Idle /\ class_map = Idle
  /\ lb_row = Idle /\ lb_result = Idle

\* ServerStatus::parse_from(&world_row)
ParseStatus ==
  /\ status = NotStarted
  /\ status' = ServerStatusParseFrom(world_row)
  /\ UNCHANGED world_row
  /\ UNCHANGED <<search_vars, profile_vars, standings_vars, results_vars, catalog_vars, remote_vars>>

StatusNext == ParseStatus

SpecStatus == StatusInit /\ [][StatusNext]_vars

----------------------------------------------------------------------------
(* Claims about the world-status extractor                                 *)

\* The outcomes the marker of the given kind allows: the status of that
\* kind, or the error of the category parse or of the availability parse.
DecidedBy(kind) ==
  \/ /\ status.tag = "Ok"
     /\ status.val.kind = kind
     /\ ServerCategoryParseFrom(world_row) = Ok(status.val.category)
     /\ CharacterAvailabilityParseFrom(world_row) = Ok(status.val.availability)
  \/ /\ status.tag = "Err"
     /\ ServerCategoryParseFrom(world_row) = status
  \/ /\ status.tag = "Err"
     /\ ServerCategoryParseFrom(world_row).tag = "Ok"
     /\ CharacterAvailabilityParseFrom(world_row) = status

\* C6: the markers world-ic__1, world-ic__2, world-ic__3 are tested in that
\* order and the first one present decides the outcome: the online marker
\* gives Online or the error of its category/availability parse and never
\* falls through to a later marker; with none of the three markers the
\* result is NodeMissing.
C6_FirstMarkerDecides ==
  status # NotStarted =>
    /\ world_row.ic1 => DecidedBy("Online")
    /\ (~world_row.ic1 /\ world_row.ic2) => DecidedBy("PartialMaintenance")
    /\ (~world_row.ic1 /\ ~world_row.ic2 /\ world_row.ic3) =>
         status = Ok([kind |-> "Maintenance"])
    /\ (~world_row.ic1 /\ ~world_row.ic2 /\ ~world_row.ic3) =>
         /\ status.tag = "Err"
         /\ status.variant = "NodeMissing"

\* The online marker was present with a later marker and its category parse
\* failed: the call returned that error.
C6_Witness ==
  /\ status # NotStarted
  /\ world_row.ic1 /\ world_row.ic3
  /\ status.tag = "Err"
  /\ status = ServerCategoryParseFrom(world_row)

----------------------------------------------------------------------------
(* Free-company leaderboard rows: src/model/standings.rs                   *)

\* A unit variant of FreeCompanyParseError.
Missing(variant) == Err(variant, "", <<>>)

\* The #[from] conversions of FreeCompanyParseError: the `?` wraps the
\* source error in the variant named after its type.
FromError(variant, result) ==
  IF result.tag = "Err"
  THEN [tag |-> "Err", variant |-> variant, node |-> "", text |-> result.text,
        source |-> result.variant]
  ELSE result

\* children.next().ok_or(RankingMissing)?.text().trim().parse()?
RankingOf(row) ==
  IF ~Nth(row, 0).some THEN Missing("RankingMissing")
  ELSE FromError("ParseIntError", ParseI32(Trim(row[1].text)))

\* The free-company block: the element child after the `skipped` cells that
\* follow the ranking cell; its first element child is the company name.
FreeCompanyNameOf(row, skipped) ==
  IF ~Nth(row, 1 + skipped).some THEN Missing("FreeCompanyMissing")
  ELSE IF ~Nth(row[2 + skipped].kids, 0).some THEN Missing("FreeCompanyMissing")
  ELSE Ok(row[2 + skipped].kids[1].text)

\* fc_data_children.next().ok_or(WorldNameMissing)?.text().split(' ')
ServerStrOf(row, skipped) ==
  IF FreeCompanyNameOf(row, skipped).tag # "Ok" THEN FreeCompanyNameOf(row, skipped)
  ELSE IF ~Nth(row[2 + skipped].kids, 1).some THEN Missing("WorldNameMissing")
  ELSE Ok(Split(row[2 + skipped].kids[2].text, <<" ">>))

\* server_str.next().ok_or(WorldNameMissing)?.trim().parse()?
WorldNameOf(tokens) ==
  IF ~Nth(tokens, 0).some THEN Missing("WorldNameMissing")
  ELSE FromError("ServerParseError", ServerFromStr(Trim(tokens[1])))

\* server_str.next().ok_or(DataCenterMissing)? and the slice
\* datacenter[1..datacenter.len() - 1]: with fewer than two bytes the
\* subtraction overflows or the range starts after its end, and the
\* indexing panics.
DatacenterOf(tokens) ==
  IF ~Nth(tokens, 1).some THEN Missing("DataCenterMissing")
  ELSE IF Len(tokens[2]) < 2 THEN Panic("datacenter[1..datacenter.len() - 1]")
  ELSE FromError("DatacenterParseError",
                 DatacenterFromStr(SubSeq(tokens[2], 2, Len(tokens[2]) - 1)))

\* children.next().ok_or(GrandCompanyMissing)?.find(Element).next()
\*   .ok_or(GrandCompanyMissing)?.attr("alt").ok_or(GrandCompanyMissing)?.parse()?
GrandCompanyOf(row, skipped) ==
  IF ~Nth(row, 2 + skipped).some THEN Missing("GrandCompanyMissing")
  ELSE IF ~Nth(row[3 + skipped].kids, 0).some THEN Missing("GrandCompanyMissing")
  ELSE IF ~row[3 + skipped].kids[1].alt.some THEN Missing("GrandCompanyMissing")
  ELSE FromError("GrandCompanyParseError",
                 GrandCompanyFromStr(row[3 + skipped].kids[1].alt.val))

\* children.next().ok_or(CreditsMissing)?.text().trim().parse()?
CreditsOf(row, skipped) ==
  IF ~Nth(row, 3 + skipped).some THEN Missing("CreditsMissing")
  ELSE FromError("ParseIntError", ParseI64(Trim(row[4 + skipped].text)))

\* The fallible steps of parse_node in the order the function reaches
\* them; the two steps on the server text are reached only with the text.
NodeSteps(row, skipped) ==
  <<RankingOf(row),
    FreeCompanyNameOf(row, skipped),
    ServerStrOf(row, skipped),
    IF ServerStrOf(row, skipped).tag = "Ok"
    THEN WorldNameOf(ServerStrOf(row, skipped).val) ELSE ServerStrOf(row, skipped),
    IF ServerStrOf(row, skipped).tag = "Ok"
    THEN DatacenterOf(ServerStrOf(row, skipped).val) ELSE ServerStrOf(row, skipped),
    GrandCompanyOf(row, skipped),
    CreditsOf(row, skipped)>>

\* The `?` chain of parse_node and the record it ends with: the first step
\* that is not Ok ends the call, with its error or its panic.
RankingResult(steps) ==
  IF \E i \in 1..Len(steps) : steps[i].tag # "Ok"
  THEN steps[CHOOSE i \in 1..Len(steps) :
               /\ steps[i].tag # "Ok"
               /\ \A j \in 1..(i - 1) : steps[j].tag = "Ok"]
  ELSE Ok([ranking |-> steps[1].val,
           free_company_name |-> steps[2].val,
           world_name |-> steps[4].val,
           datacenter |-> steps[5].val,
           grand_company |-> steps[6].val,
           company_credits |-> steps[7].val])

\* The number of cells `let _ = children.next(); // crest` consumes.
CrestCells == 1

\* parse_node without the statement that consumes the crest cell.
parse_node_keeping_crest(row) == RankingResult(NodeSteps(row, 0))

\* FreeCompanyLeaderboardQuery::parse_node
parse_node(row) == RankingResult(NodeSteps(row, CrestCells))

\* An element with its text, its element descendants in document order and
\* its alt attribute.
Element(text, kids, alt) == [text |-> text, kids |-> kids, alt |-> alt]

Leaf(text) == Element(Chars(text), <<>>, None)

Img(alt) == Element(<<>>, <<>>, alt)

RankCells == {Leaf(" 1 "), Leaf("first"), Leaf("2147483648")}

CrestCell == Element(<<>>, <<Img(None)>>, None)

ServerTexts ==
  {"Odin [Light]", "Famfrit [Primal]", "Odin", "Odin ", "Odin [", "Odin []",
   "Odin  [Light]", "Nowhere [Light]", "Odin [Nowhere]", ""}

FreeCompanyCells ==
  {Element(<<>>, <<>>, None), Element(<<>>, <<Leaf("Crystal Tower")>>, None)}
    \cup {Element(<<>>, <<Leaf("Crystal Tower"), Leaf(t)>>, None) : t \in ServerTexts}

GrandCompanyCells ==
  {Element(<<>>, <<>>, None), Element(<<>>, <<Img(None)>>, None),
   Element(<<>>, <<Img(Some(Chars("Maelstrom")))>>, None),
   Element(<<>>, <<Img(Some(Chars("Garlean Empire")))>>, None)}

CreditsCells == {Leaf("5000"), Leaf(" 12 "), Leaf("many"), Leaf("9223372036854775808")}

\* The element children of a table row: a prefix of the five columns.
LeaderboardRows ==
  {<<>>}
    \cup {<<r>> : r \in RankCells}
    \cup {<<r, CrestCell>> : r \in RankCells}
    \cup {<<r, CrestCell, f>> : r \in RankCells, f \in FreeCompanyCells}
    \cup {<<r, CrestCell, f, g>> :
            r \in RankCells, f \in FreeCompanyCells, g \in GrandCompanyCells}
    \cup {<<r, CrestCell, f, g, c>> :
            r \in RankCells, f \in FreeCompanyCells, g \in GrandCompanyCells,
            c \in CreditsCells}

LeaderboardInit ==
  /\ ResultsIdle /\ CatalogIdle /\ RemoteIdle
  /\ lb_row \in LeaderboardRows
  /\ lb_result = NotStarted
  /\ builder = Idle /\ built = Idle /\ url = Idle /\ last_world = Idle
  /\ main_doc = Idle /\ classes_doc = Idle /\ profile = Idle /\ class_map = Idle
  /\ world_row = Idle /\ status = Idle

\* FreeCompanyLeaderboardQuery::parse_node(&lb_row)
ParseNode ==
  /\ lb_result = NotStarted
  /\ lb_result' = parse_node(lb_row)
  /\ UNCHANGED lb_row
  /\ UNCHANGED <<search_vars, profile_vars, status_vars, results_vars, catalog_vars, remote_vars>>

LeaderboardNext == ParseNode

SpecLeaderboard == LeaderboardInit /\ [][LeaderboardNext]_vars

----------------------------------------------------------------------------
(* Claims about the leaderboard row extractor                              *)

\* The cell of the row at a column (1-based), when the row has it.
HasCell(n) == Len(lb_row) >= n

HasServerText == HasCell(3) /\ Len(lb_row[3].kids) >= 2

HasAlt == HasCell(4) /\ Len(lb_row[4].kids) >= 1 /\ lb_row[4].kids[1].alt.some

ServerTokens == Split(lb_row[3].kids[2].text, <<" ">>)

\* Every cell the row has holds what its column is expected to hold.
PresentCellsWellFormed ==
  /\ HasCell(1) => ParseI32(Trim(lb_row[1].text)).tag = "Ok"
  /\ HasServerText =>
       /\ Len(ServerTokens) = 2
       /\ ServerFromStr(Trim(ServerTokens[1])).tag = "Ok"
       /\ Len(ServerTokens[2]) >= 2
       /\ ServerTokens[2][1] = "["
       /\ ServerTokens[2][Len(ServerTokens[2])] = "]"
       /\ DatacenterFromStr(SubSeq(ServerTokens[2], 2, Len(ServerTokens[2]) - 1)).tag = "Ok"
  /\ HasAlt => GrandCompanyFromStr(lb_row[4].kids[1].alt.val).tag = "Ok"
  /\ HasCell(5) => ParseI64(Trim(lb_row[5].text)).tag = "Ok"

\* C7: on a row whose present cells are well-formed, parse_node names the
\* first missing column: no cells is RankingMissing, no free-company block
\* or no name child is FreeCompanyMissing, no server text child is
\* WorldNameMissing, no grand-company cell, icon or alt attribute is
\* GrandCompanyMissing, and the four cells rank, crest, free company, grand
\* company without a credits cell is CreditsMissing.
C7_FirstMissingColumnNamed ==
  (lb_result # NotStarted /\ PresentCellsWellFormed) =>
    /\ ~HasCell(1) => lb_result = Missing("RankingMissing")
    /\ (HasCell(1) /\ (~HasCell(3) \/ Len(lb_row[3].kids) = 0)) =>
         lb_result = Missing("FreeCompanyMissing")
    /\ (HasCell(3) /\ Len(lb_row[3].kids) = 1) =>
         lb_result = Missing("WorldNameMissing")
    /\ (HasServerText /\ ~HasAlt) => lb_result = Missing("GrandCompanyMissing")
    /\ (HasServerText /\ HasAlt /\ Len(lb_row) = 4) =>
         lb_result = Missing("CreditsMissing")

\* A well-formed row of exactly four cells was parsed and CreditsMissing
\* came back.
C7_Witness ==
  /\ lb_result = Missing("CreditsMissing")
  /\ PresentCellsWellFormed
  /\ Len(lb_row) = 4
  /\ HasServerText /\ HasAlt

\* C8: parse_node never crashes: for every row, including the rows whose
\* server text has a second space-separated token shorter than two
\* characters, the call returns a ranking record or a FreeCompanyParseError.
C8_NeverCrashes ==
  lb_result # NotStarted => lb_result.tag \in {"Ok", "Err"}

----------------------------------------------------------------------------
(* Class pages with one unlocked row and a varied experience text          *)

\* The texts on one side of the " / " of an experience text.
XpSides ==
  {"--", "0", "30,600", "6,910,613", "4,294,967,295", "4,294,967,296", "1,,2",
   "many", "", "-"}

XpTexts ==
  {Chars(l) \o Chars(" / ") \o Chars(r) : l \in XpSides, r \in XpSides}
    \cup {Chars("--"), Chars("15,200/30,600"), Chars("1 / 2 / 3")}

XpLevels == {"70", "seventy"}

XpDocs ==
  {<<<<[name |-> Some(Chars("Bard")), level |-> Some(Chars(l)), exp |-> Some(t)]>>>> :
     l \in XpLevels, t \in XpTexts}

ClassXpInit ==
  /\ ResultsIdle /\ CatalogIdle /\ RemoteIdle
  /\ classes_doc \in XpDocs
  /\ class_map = NotStarted
  /\ main_doc = Idle /\ profile = Idle
  /\ builder = Idle /\ built = Idle /\ url = Idle /\ last_world = Idle
  /\ world_row = Idle /\ status = Idle
  /\ lb_row = Idle /\ lb_result = Idle

SpecClassXp == ClassXpInit /\ [][ClassesNext]_vars

----------------------------------------------------------------------------
(* Claims about the experience text                                        *)

\* C11: every ClassInfo parse_classes produces has current_xp and max_xp
\* both present or both absent.
C11_XpPresentTogether ==
  class_map.tag = "Ok" =>
    \A k \in DOMAIN class_map.val :
      class_map.val[k].some =>
        (class_map.val[k].val.current_xp.some <=> class_map.val[k].val.max_xp.some)

\* The one row of the page and the sides of its experience text.
XpRow == classes_doc[1][1]

XpParts == Split(XpRow.exp.val, Chars(" / "))

NotSeparator(c) == c # ","

\* What a side stands for: nothing for "--", otherwise the integer written
\* by its characters other than ','.
SideValue(side) ==
  IF side = Chars("--") THEN Ok(None)
  ELSE IF ParseU32(SelectSeq(side, NotSeparator)).tag = "Ok"
       THEN Ok(Some(ParseU32(SelectSeq(side, NotSeparator)).val))
       ELSE Err("ParseIntError", "", <<>>)

\* C12: for an unlocked row each side of the experience text is decoded on
\* its own: "--" is None, any other text is the integer left after removing
\* every ',', and a side that is neither gives an integer-parse error.
C12_SidesDecodedAlike ==
  (class_map # NotStarted /\ Len(XpParts) >= 2 /\ ParseU32(XpRow.level.val).tag = "Ok") =>
    IF SideValue(XpParts[1]).tag = "Ok" /\ SideValue(XpParts[2]).tag = "Ok"
    THEN /\ class_map.tag = "Ok"
         /\ ClassesGet(class_map.val, "Bard") =
              Some([level |-> ParseU32(XpRow.level.val).val,
                    current_xp |-> SideValue(XpParts[1]).val,
                    max_xp |-> SideValue(XpParts[2]).val])
    ELSE /\ class_map.tag = "Err"
         /\ class_map.variant = "ParseIntError"

\* A row reading "-- / 6,910,613" was parsed: no current experience, and
\* 6910613 as the maximum.
C12_Witness ==
  /\ class_map.tag = "Ok"
  /\ XpParts = <<Chars("--"), Chars("6,910,613")>>
  /\ ClassesGet(class_map.val, "Bard").val.current_xp = None
  /\ ClassesGet(class_map.val, "Bard").val.max_xp = Some(Chars("6910613"))

----------------------------------------------------------------------------
(* Class pages whose rows lack nodes or carry malformed texts              *)

MaxRowsWalked == 2

NodeTexts(texts) == {None} \cup {Some(Chars(t)) : t \in texts}

\* Rows with and without each of the three nodes.
RowAlts ==
  [name : NodeTexts({"Paladin / Gladiator", "Gladiator", "Hero"}),
   level : NodeTexts({"-", "30"}),
   exp : NodeTexts({"0 / 68,400", "soon"})]

RowDocs == {<<rows>> : rows \in UNION {[1..n -> RowAlts] : n \in 0..MaxRowsWalked}}

ClassRowsInit ==
  /\ ResultsIdle /\ CatalogIdle /\ RemoteIdle
  /\ classes_doc \in RowDocs
  /\ class_map = NotStarted
  /\ main_doc = Idle /\ profile = Idle
  /\ builder = Idle /\ built = Idle /\ url = Idle /\ last_world = Idle
  /\ world_row = Idle /\ status = Idle
  /\ lb_row = Idle /\ lb_result = Idle

SpecClassRows == ClassRowsInit /\ [][ClassesNext]_vars

----------------------------------------------------------------------------
(* Claims about rows that abort the class-progress extraction              *)

\* The rows of the page's content group.
PageRows == classes_doc[1]

\* The class a row's name text stands for.
RowClass(row) == ClassTypeFromStr(Split(row.name.val, Chars(" / "))[1])

KnownName(row) == row.name.some /\ RowClass(row).tag = "Ok"

LockedRow(row) == row.level.some /\ row.level.val = <<"-">>

\* An unlocked row with a numeric level and an experience text whose two
\* sides are "--" or numbers.
WellFormedProgress(row) ==
  /\ row.level.some /\ row.exp.some
  /\ ParseU32(row.level.val).tag = "Ok"
  /\ Len(Split(row.exp.val, Chars(" / "))) >= 2
  /\ SideValue(Split(row.exp.val, Chars(" / "))[1]).tag = "Ok"
  /\ SideValue(Split(row.exp.val, Chars(" / "))[2]).tag = "Ok"

WithoutRow(i) ==
  <<[j \in 1..(Len(PageRows) - 1) |-> IF j < i THEN PageRows[j] ELSE PageRows[j + 1]]>>

\* The row writes the entry of the class: it names the class, or the
\* advanced job whose progress is mirrored under it.
WritesClass(row, class) ==
  /\ KnownName(row)
  /\ \/ RowClass(row).val = class
     \/ <<RowClass(row).val, class>> \in AdvancedBaseArms

\* C14: a row whose level text is "-" and whose name is a known class does
\* not abort the extraction, with or without an experience node and
\* whatever that node holds: the page yields a map or an error as it does
\* without the row, the other rows are processed, and the class is recorded
\* as None unless a later row writes it.
C14_LockedRowRecordedNone ==
  class_map # NotStarted =>
    \A i \in 1..Len(PageRows) :
      (KnownName(PageRows[i]) /\ LockedRow(PageRows[i])) =>
        /\ class_map.tag = parse_classes(WithoutRow(i)).tag
        /\ class_map.tag = "Err" => class_map = parse_classes(WithoutRow(i))
        /\ class_map.tag = "Ok" =>
             /\ \A j \in 1..Len(PageRows) :
                  RowClass(PageRows[j]).val \in DOMAIN class_map.val
             /\ (\A j \in (i + 1)..Len(PageRows) :
                   ~WritesClass(PageRows[j], RowClass(PageRows[i]).val)) =>
                  /\ RowClass(PageRows[i]).val \in DOMAIN class_map.val
                  /\ class_map.val[RowClass(PageRows[i]).val] = None

\* A locked row without an experience node was followed by an unlocked
\* row, and the map holds None for the one and the progress of the other.
C14_Witness ==
  /\ class_map.tag = "Ok"
  /\ Len(PageRows) = 2
  /\ KnownName(PageRows[1]) /\ LockedRow(PageRows[1]) /\ ~PageRows[1].exp.some
  /\ RowClass(PageRows[1]).val = "Gladiator"
  /\ RowClass(PageRows[2]).val = "Paladin"
  /\ ~LockedRow(PageRows[2])

----------------------------------------------------------------------------
(* Search result pages: SearchBuilder::parse_profile in src/search.rs      *)

RECURSIVE SkipWhileNotDigit(_)
SkipWhileNotDigit(text) ==
  IF text # <<>> /\ ~IsAsciiDigit(Head(text)) THEN SkipWhileNotDigit(Tail(text)) ELSE text

RECURSIVE TakeWhileDigit(_)
TakeWhileDigit(text) ==
  IF text # <<>> /\ IsAsciiDigit(Head(text))
  THEN <<Head(text)>> \o TakeWhileDigit(Tail(text))
  ELSE <<>>

\* The digits of the href with every other character filtered out.
DigitsFiltered(text) == SelectSeq(text, IsAsciiDigit)

\* text.chars().skip_while(|ch| !ch.is_ascii_digit())
\*     .take_while(|ch| ch.is_ascii_digit()).collect::<String>()
DigitsCollected(text) == TakeWhileDigit(SkipWhileNotDigit(text))

\* node.attr("href").and_then(|text| ... digits.parse::<u32>().ok())
UserIdOf(node) ==
  IF ~node.href.some THEN None
  ELSE IF ParseU32(DigitsCollected(node.href.val)).tag = "Ok"
       THEN Some(ParseU32(DigitsCollected(node.href.val)).val)
       ELSE None

\* The closure handed to filter_map: each `?` on a None drops the node.
SearchResultOf(node) ==
  IF ~UserIdOf(node).some THEN None
  ELSE IF ~node.name.some THEN None
  ELSE IF ~node.world.some THEN None
  ELSE Some([user_id |-> UserIdOf(node).val, name |-> node.name.val,
             world |-> node.world.val])

\* filter_map(..).collect() that ends at the first node the closure drops.
RECURSIVE SearchBuilder_parse_profile_stopping(_)
SearchBuilder_parse_profile_stopping(doc) ==
  IF doc = <<>> THEN <<>>
  ELSE IF SearchResultOf(Head(doc)).some
       THEN <<SearchResultOf(Head(doc)).val>> \o SearchBuilder_parse_profile_stopping(Tail(doc))
       ELSE <<>>

\* SearchBuilder::parse_profile: doc.find(Class("entry__link")).filter_map(..).collect()
RECURSIVE SearchBuilder_parse_profile(_)
SearchBuilder_parse_profile(doc) ==
  IF doc = <<>> THEN <<>>
  ELSE IF SearchResultOf(Head(doc)).some
       THEN <<SearchResultOf(Head(doc)).val>> \o SearchBuilder_parse_profile(Tail(doc))
       ELSE SearchBuilder_parse_profile(Tail(doc))

MaxEntries == 2

EntryHrefs ==
  {"/lodestone/character/11908971/", "/lodestone/character/", "character/007/x9",
   "/lodestone/character/4294967296/", "4294967295", "/a1b22c/"}

EntryLinks ==
  [href : NodeTexts(EntryHrefs), name : NodeTexts({"Al Bo"}), world : NodeTexts({"Odin"})]

SearchDocs == UNION {[1..n -> EntryLinks] : n \in 0..MaxEntries}

ResultsInit ==
  /\ search_doc \in SearchDocs
  /\ search_results = NotStarted
  /\ CatalogIdle /\ RemoteIdle
  /\ builder = Idle /\ built = Idle /\ url = Idle /\ last_world = Idle
  /\ main_doc = Idle /\ classes_doc = Idle /\ profile = Idle /\ class_map = Idle
  /\ world_row = Idle /\ status = Idle
  /\ lb_row = Idle /\ lb_result = Idle

\* SearchBuilder::parse_profile(search_doc)
ParseSearchResults ==
  /\ search_results = NotStarted
  /\ search_results' = Done(SearchBuilder_parse_profile(search_doc))
  /\ UNCHANGED search_doc
  /\ UNCHANGED <<search_vars, profile_vars, status_vars, standings_vars, catalog_vars, remote_vars>>

ResultsNext == ParseSearchResults

SpecResults == ResultsInit /\ [][ResultsNext]_vars

----------------------------------------------------------------------------
(* Claims about the search result extractor                                *)

\* The positions of the digits of the i-th entry's href.
DigitPositions(i) ==
  {p \in 1..Len(search_doc[i].href.val) : IsAsciiDigit(search_doc[i].href.val[p])}

RunStart(i) == CHOOSE p \in DigitPositions(i) : \A q \in DigitPositions(i) : p <= q

\* The last position of the maximal run of digits that begins at RunStart.
RunEnd(i) ==
  CHOOSE e \in DigitPositions(i) :
    /\ \A p \in RunStart(i)..e : p \in DigitPositions(i)
    /\ (e + 1) \notin DigitPositions(i)
    /\ e >= RunStart(i)

\* The first maximal run of ASCII digits of the i-th entry's href.
FirstDigitRun(i) == SubSeq(search_doc[i].href.val, RunStart(i), RunEnd(i))

\* The i-th entry has an href whose first digit run is a u32.
HasIdentifier(i) ==
  /\ search_doc[i].href.some
  /\ DigitPositions(i) # {}
  /\ ParseU32(FirstDigitRun(i)).tag = "Ok"

Kept(i) == HasIdentifier(i) /\ search_doc[i].name.some /\ search_doc[i].world.some

\* The position in the output of the i-th entry, when it is kept.
Rank(i) == Cardinality({j \in 1..i : Kept(j)})

\* C15: parse_profile never fails, and its output is exactly the entries
\* that have a parsable identifier, a name node and a world node, in
\* document order; the others are dropped without affecting the rest.
C15_KeptSubsequence ==
  search_results # NotStarted =>
    /\ search_results.tag = "Done"
    /\ DOMAIN search_results.val = 1..Cardinality({i \in 1..Len(search_doc) : Kept(i)})
    /\ \A i \in 1..Len(search_doc) :
         Kept(i) =>
           /\ search_results.val[Rank(i)].name = search_doc[i].name.val
           /\ search_results.val[Rank(i)].world = search_doc[i].world.val
           /\ search_results.val[Rank(i)].user_id = ParseU32(FirstDigitRun(i)).val

\* An entry without a name node came first and was dropped; the complete
\* entry after it is the only result.
C15_Witness ==
  /\ search_results # NotStarted
  /\ Len(search_doc) = 2
  /\ ~search_doc[1].name.some /\ HasIdentifier(1)
  /\ Kept(2)
  /\ Len(search_results.val) = 1

\* The page without its i-th entry.
WithoutEntry(i) ==
  [j \in 1..(Len(search_doc) - 1) |-> IF j < i THEN search_doc[j] ELSE search_doc[j + 1]]

\* C16: the user_id of an entry is the number written by the first maximal
\* run of ASCII digits of its href, wherever the run stands; an href with no
\* digit, or whose first run does not fit in a u32, makes the entry be
\* dropped.
C16_FirstDigitRun ==
  search_results # NotStarted =>
    \A i \in 1..Len(search_doc) :
      (search_doc[i].href.some /\ search_doc[i].name.some /\ search_doc[i].world.some) =>
        IF DigitPositions(i) # {} /\ ParseU32(FirstDigitRun(i)).tag = "Ok"
        THEN search_results.val[Rank(i)].user_id = ParseU32(FirstDigitRun(i)).val
        ELSE search_results.val = SearchBuilder_parse_profile(WithoutEntry(i))

\* The href "/a1b22c/" gave the identifier 1, and an entry whose run is
\* 4294967296 was dropped.
C16_Witness ==
  /\ search_results # NotStarted
  /\ Len(search_doc) = 2
  /\ search_doc[1].href = Some(Chars("/a1b22c/"))
  /\ search_doc[2].href = Some(Chars("/lodestone/character/4294967296/"))
  /\ search_doc[2].name.some /\ search_doc[2].world.some
  /\ Len(search_results.val) = 1
  /\ search_results.val[1].user_id = <<"1">>

----------------------------------------------------------------------------
(* The catalog types: Display and FromStr of src/model/*.rs                *)

\* <Catalog as FromStr>::from_str
CatalogFromStr(kind, s) ==
  CASE kind = "Datacenter" -> DatacenterFromStr(s)
    [] kind = "Server" -> ServerFromStr(s)
    [] kind = "Race" -> RaceFromStr(s)
    [] kind = "Gender" -> GenderFromStr(s)
    [] kind = "GrandCompany" -> GrandCompanyFromStr(s)
    [] kind = "Language" -> LanguageFromStr(s)
    [] kind = "ServerCategory" -> ServerCategoryFromStr(s)

\* <Catalog as Display>::fmt
CatalogDisplay(kind, variant) ==
  CASE kind = "Datacenter" -> DatacenterDisplay(variant)
    [] kind = "Server" -> ServerDisplay(variant)
    [] kind = "ServerCategory" -> ServerCategoryDisplay(variant)

\* The variants the match of Display lists: every variant of the enum.
DisplayedVariants(kind) ==
  CASE kind = "Datacenter" -> {a[1] : a \in DatacenterDisplayArms}
    [] kind = "Server" -> {a[1] : a \in ServerDisplayArms}
    [] kind = "ServerCategory" -> {a[1] : a \in ServerCategoryDisplayArms}

RoundTripInit ==
  /\ catalog \in {"Datacenter", "Server"}
  /\ catalog_variant \in DisplayedVariants("Datacenter") \cup DisplayedVariants("Server")
  /\ catalog_variant \in DisplayedVariants(catalog)
  /\ catalog_text = NotStarted
  /\ catalog_result = NotStarted
  /\ search_doc = Idle /\ search_results = Idle /\ RemoteIdle
  /\ builder = Idle /\ built = Idle /\ url = Idle /\ last_world = Idle
  /\ main_doc = Idle /\ classes_doc = Idle /\ profile = Idle /\ class_map = Idle
  /\ world_row = Idle /\ status = Idle
  /\ lb_row = Idle /\ lb_result = Idle

CatalogOthersUnchanged ==
  UNCHANGED <<search_vars, profile_vars, status_vars, standings_vars, results_vars,
              remote_vars>>

\* catalog_variant.to_string()
DisplayCall ==
  /\ catalog_text = NotStarted
  /\ catalog_text' = Done(CatalogDisplay(catalog, catalog_variant))
  /\ UNCHANGED <<catalog, catalog_variant, catalog_result>>
  /\ CatalogOthersUnchanged

\* catalog_text.parse::<Catalog>()
FromStrCall ==
  /\ catalog_text # NotStarted
  /\ catalog_result = NotStarted
  /\ catalog_result' = CatalogFromStr(catalog, catalog_text.val)
  /\ UNCHANGED <<catalog, catalog_variant, catalog_text>>
  /\ CatalogOthersUnchanged

RoundTripNext == DisplayCall \/ FromStrCall

SpecRoundTrip == RoundTripInit /\ [][RoundTripNext]_vars

\* The number of whitespace characters put before and after a word.
MaxPadding == 1

CatalogWords ==
  {Chars(w) : w \in {"Primal", "primal", "PRIMAL", "Odin", "oDiN", "Aniuma", "anima",
                     "Hyur", "HYUR", "Au Ra", "Miqo'te", "Maelstrom", "none", "",
                     "English", "en", "Fr", "Nowhere", "nowhere"}}
    \cup {<<FEMALE>>, <<MALE>>}

Padding == UNION {[1..n -> {" "}] : n \in 0..MaxPadding}

CatalogTexts == {l \o w \o r : l \in Padding, w \in CatalogWords, r \in Padding}

Catalogs == {"Datacenter", "Server", "Race", "Gender", "GrandCompany", "Language"}

CatalogInit ==
  /\ catalog \in Catalogs
  /\ catalog_variant = Idle
  /\ catalog_text \in {Done(t) : t \in CatalogTexts}
  /\ catalog_result = NotStarted
  /\ search_doc = Idle /\ search_results = Idle /\ RemoteIdle
  /\ builder = Idle /\ built = Idle /\ url = Idle /\ last_world = Idle
  /\ main_doc = Idle /\ classes_doc = Idle /\ profile = Idle /\ class_map = Idle
  /\ world_row = Idle /\ status = Idle
  /\ lb_row = Idle /\ lb_result = Idle

CatalogNext == FromStrCall

SpecCatalog == CatalogInit /\ [][CatalogNext]_vars

----------------------------------------------------------------------------
(* Claims about the catalog types                                          *)

\* C17: for every Datacenter variant and every Server variant, parsing the
\* variant's display string returns that same variant.
C17_DisplayParseRoundTrip ==
  catalog_result # NotStarted => catalog_result = Ok(catalog_variant)

\* The display string of Server::Anima, "Aniuma", was parsed back to Anima.
C17_Witness ==
  /\ catalog = "Server"
  /\ catalog_variant = "Anima"
  /\ catalog_text = Done(Chars("Aniuma"))
  /\ catalog_result = Ok("Anima")

\* The catalogs whose from_str is case-insensitive.
CaseInsensitiveCatalogs == {"Datacenter", "Server", "Race", "GrandCompany", "Language"}

\* C18: for the Datacenter, Server, Race, GrandCompany and Language
\* catalogs, parsing a text and parsing its uppercase form have the same
\* outcome: the same variant, or the same error.
C18_CaseInsensitive ==
  (catalog_result # NotStarted /\ catalog \in CaseInsensitiveCatalogs) =>
    catalog_result = CatalogFromStr(catalog, ToUppercase(catalog_text.val))

\* "primal" was parsed to Datacenter::Primal.
C18_Witness ==
  /\ catalog = "Datacenter"
  /\ catalog_text = Done(Chars("primal"))
  /\ catalog_result = Ok("Primal")

\* C19: catalog parsing is trimmed: a text with leading or trailing
\* whitespace parses to the variant the text without it parses to.
C19_Trimmed ==
  (catalog_result # NotStarted /\ catalog \in CaseInsensitiveCatalogs) =>
    (CatalogFromStr(catalog, Trim(catalog_text.val)).tag = "Ok" =>
       catalog_result = CatalogFromStr(catalog, Trim(catalog_text.val)))

\* The typed parse error of each catalog.
CatalogError(kind) ==
  CASE kind = "Datacenter" -> "DatacenterParseError"
    [] kind = "Race" -> "RaceParseError"
    [] kind = "Gender" -> "GenderParseError"
    [] kind = "GrandCompany" -> "GrandCompanyParseError"
    [] kind = "Language" -> "LanguageParseError"

\* C20: for the Datacenter, Race, Gender, GrandCompany and Language
\* catalogs, a text that matches no entry gives the catalog's typed parse
\* error, and the error carries the input text as it was given.
C20_ErrorCarriesInput ==
  (catalog_result # NotStarted /\ catalog # "Server" /\ catalog_result.tag # "Ok") =>
    /\ catalog_result.tag = "Err"
    /\ catalog_result.variant = CatalogError(catalog)
    /\ catalog_result.text = catalog_text.val

----------------------------------------------------------------------------
(* Further claims about the profile extractor                              *)

\* C21: CP is never reachable in parse_char_param: for every parameters
\* block the secondary resource returned is tagged MP or GP, never CP.
C21_CpNeverReturned ==
  (Returned /\ profile.tag = "Ok") => profile.val.mp_or_gp.kind \in {"MP", "GP"}

\* An item carrying the marker that both the MP and the CP branch test was
\* parsed, and the secondary resource came back tagged MP.
C21_Witness ==
  /\ Returned /\ profile.tag = "Ok"
  /\ \E i \in 1..Len(ParamBlockItems) :
       /\ ParamBlockItems[i].hp # 1
       /\ ParamBlockItems[i].mp = 1
  /\ profile.val.mp_or_gp.kind = "MP"

----------------------------------------------------------------------------
(* The world-status page: src/model/server.rs                              *)

\* The closure of ServerDetails::parse_from_doc: the status of the row, then
\* its world name, trimmed.
ServerDetailsOf(n) ==
  IF ServerStatusParseFrom(n).tag # "Ok" THEN ServerStatusParseFrom(n)
  ELSE IF ~n.name.some THEN Err("NodeMissing", "world-list__world_name", <<>>)
  ELSE Ok([name |-> Trim(n.name.val), status |-> ServerStatusParseFrom(n).val])

\* map(..) that keeps the rows the closure accepts and drops the others.
RECURSIVE ServerDetailsParseFromDocSkipping(_)
ServerDetailsParseFromDocSkipping(items) ==
  IF items = <<>> THEN Ok(<<>>)
  ELSE IF ServerDetailsOf(Head(items)).tag # "Ok"
       THEN ServerDetailsParseFromDocSkipping(Tail(items))
       ELSE Ok(<<ServerDetailsOf(Head(items)).val>>
               \o ServerDetailsParseFromDocSkipping(Tail(items)).val)

\* ServerDetails::parse_from_doc: doc.find(Class("world-list__item")).map(..)
\* collected into a Result, which ends at the first error.
RECURSIVE ServerDetailsParseFromDoc(_)
ServerDetailsParseFromDoc(items) ==
  IF items = <<>> THEN Ok(<<>>)
  ELSE IF ServerDetailsOf(Head(items)).tag # "Ok" THEN ServerDetailsOf(Head(items))
  ELSE IF ServerDetailsParseFromDoc(Tail(items)).tag # "Ok"
       THEN ServerDetailsParseFromDoc(Tail(items))
       ELSE Ok(<<ServerDetailsOf(Head(items)).val>>
               \o ServerDetailsParseFromDoc(Tail(items)).val)

\* The header of a datacenter group: the first world-dcgroup__header node,
\* its text trimmed and parsed; the `?` wraps a DatacenterParseError.
DataCenterNameOf(dc) ==
  IF ~dc.header.some THEN Err("NodeMissing", "world-dcgroup__header missing", <<>>)
  ELSE FromError("DatacenterParseError", DatacenterFromStr(Trim(dc.header.val)))

\* The closure of DataCenterDetails::parse_from_doc: the name, then the
\* servers of the group.
DataCenterDetailsOf(dc) ==
  IF DataCenterNameOf(dc).tag # "Ok" THEN DataCenterNameOf(dc)
  ELSE IF ServerDetailsParseFromDoc(dc.items).tag # "Ok"
       THEN ServerDetailsParseFromDoc(dc.items)
       ELSE Ok([name |-> DataCenterNameOf(dc).val,
                servers |-> ServerDetailsParseFromDoc(dc.items).val])

\* DataCenterDetails::parse_from_doc: doc.find(Class("world-dcgroup__item"))
\* .map(..) collected into a Result.
RECURSIVE DataCenterDetailsParseFromDoc(_)
DataCenterDetailsParseFromDoc(doc) ==
  IF doc = <<>> THEN Ok(<<>>)
  ELSE IF DataCenterDetailsOf(Head(doc)).tag # "Ok" THEN DataCenterDetailsOf(Head(doc))
  ELSE IF DataCenterDetailsParseFromDoc(Tail(doc)).tag # "Ok"
       THEN DataCenterDetailsParseFromDoc(Tail(doc))
       ELSE Ok(<<DataCenterDetailsOf(Head(doc)).val>>
               \o DataCenterDetailsParseFromDoc(Tail(doc)).val)

MaxGroups == 2
MaxWorldItems == 2

\* A world-list__item: its status markers, category cell and name cell.
WorldItem(ic1, ic3, category, name) ==
  [ic1 |-> ic1, ic2 |-> FALSE, ic3 |-> ic3, category |-> category,
   available |-> TRUE, unavailable |-> FALSE, name |-> name]

WorldItems ==
  {WorldItem(TRUE, FALSE, Some(Chars("Standard")), Some(Chars(" Gilgamesh "))),
   WorldItem(FALSE, TRUE, None, Some(Chars("Cactuar"))),
   WorldItem(TRUE, FALSE, Some(Chars("Standard")), None),
   WorldItem(FALSE, FALSE, Some(Chars("Standard")), Some(Chars("Faerie")))}

GroupHeaders ==
  {Some(Chars(" Aether ")), Some(Chars("Primal")), Some(Chars("Nowhere")), None}

\* The world-dcgroup__item blocks holding n world rows.
GroupsWith(n) ==
  {[header |-> h, items |-> r] : h \in GroupHeaders, r \in [1..n -> WorldItems]}

\* The numbers of rows of the groups of a page: at most MaxGroups groups
\* holding at most MaxWorldItems rows together.
RECURSIVE Total(_)
Total(counts) == IF counts = <<>> THEN 0 ELSE Head(counts) + Total(Tail(counts))

GroupSizes ==
  {c \in UNION {[1..g -> 0..MaxWorldItems] : g \in 0..MaxGroups} :
     Total(c) <= MaxWorldItems}

RECURSIVE PagesWith(_)
PagesWith(counts) ==
  IF counts = <<>> THEN {<<>>}
  ELSE {<<g>> \o d : g \in GroupsWith(Head(counts)), d \in PagesWith(Tail(counts))}

WorldPages == UNION {PagesWith(c) : c \in GroupSizes}

WorldsInit ==
  /\ ResultsIdle /\ CatalogIdle /\ LookupIdle /\ QueryIdle
  /\ world_doc \in WorldPages
  /\ snapshot = NotStarted
  /\ builder = Idle /\ built = Idle /\ url = Idle /\ last_world = Idle
  /\ main_doc = Idle /\ classes_doc = Idle /\ profile = Idle /\ class_map = Idle
  /\ world_row = Idle /\ status = Idle
  /\ lb_row = Idle /\ lb_result = Idle

\* DataCenterDetails::parse_from_doc(&world_doc)
ParseWorlds ==
  /\ snapshot = NotStarted
  /\ snapshot' = DataCenterDetailsParseFromDoc(world_doc)
  /\ UNCHANGED world_doc
  /\ UNCHANGED <<search_vars, profile_vars, status_vars, standings_vars, results_vars,
                 catalog_vars, lookup_vars, query_vars>>

WorldsNext == ParseWorlds

SpecWorlds == WorldsInit /\ [][WorldsNext]_vars

----------------------------------------------------------------------------
(* Claims about the world-status page                                      *)

\* A world row parses: its status decodes and its name cell is present.
RowParses(n) == ServerStatusParseFrom(n).tag = "Ok" /\ n.name.some

\* A group header parses: it is present and names a datacenter.
HeaderParses(dc) ==
  dc.header.some /\ DatacenterFromStr(Trim(dc.header.val)).tag = "Ok"

\* Every header and every row of the page parses.
PageParses ==
  \A g \in 1..Len(world_doc) :
    /\ HeaderParses(world_doc[g])
    /\ \A r \in 1..Len(world_doc[g].items) : RowParses(world_doc[g].items[r])

\* C22: on success parse_from_doc returns one entry per datacenter group, in
\* document order, each holding one ServerDetails per world row of the group,
\* in document order; when a group header or a world row fails to parse the
\* whole snapshot is an error.
C22_OneEntryPerGroupAndRow ==
  snapshot # NotStarted =>
    /\ ~PageParses => snapshot.tag = "Err"
    /\ snapshot.tag = "Ok" =>
         /\ Len(snapshot.val) = Len(world_doc)
         /\ \A g \in 1..Len(world_doc) :
              /\ Ok(snapshot.val[g].name) = DatacenterFromStr(Trim(world_doc[g].header.val))
              /\ Len(snapshot.val[g].servers) = Len(world_doc[g].items)
              /\ \A r \in 1..Len(world_doc[g].items) :
                   /\ snapshot.val[g].servers[r].name = Trim(world_doc[g].items[r].name.val)
                   /\ Ok(snapshot.val[g].servers[r].status)
                        = ServerStatusParseFrom(world_doc[g].items[r])

\* A page of two groups, the first with two different rows, was decoded.
C22_Witness ==
  /\ snapshot # NotStarted
  /\ snapshot.tag = "Ok"
  /\ Len(world_doc) = 2
  /\ Len(world_doc[1].items) = 2
  /\ world_doc[1].items[1] # world_doc[1].items[2]
  /\ world_doc[1].header # world_doc[2].header

\* A page whose first group parses and whose second group holds a row that
\* does not: the snapshot is an error.
C22_WitnessPartial ==
  /\ snapshot # NotStarted
  /\ snapshot.tag = "Err"
  /\ Len(world_doc) = 2
  /\ HeaderParses(world_doc[1])
  /\ \A r \in 1..Len(world_doc[1].items) : RowParses(world_doc[1].items[r])
  /\ HeaderParses(world_doc[2])
  /\ \E r \in 1..Len(world_doc[2].items) : ~RowParses(world_doc[2].items[r])

----------------------------------------------------------------------------
(* Further claims about the world-status extractor                         *)

\* The row's only status marker is the full-maintenance marker.
MaintenanceOnly == ~world_row.ic1 /\ ~world_row.ic2 /\ world_row.ic3

\* The call returned an error of the category or availability parse.
RowReadFailed ==
  /\ status.tag = "Err"
  /\ \/ status.variant = "CategoryParseError"
     \/ status.node \in {"world-list__world_category", "world-ic__unavailable"}

\* C23: a row whose only status marker is the full-maintenance marker decodes
\* to Maintenance whatever its category label and availability markers are;
\* an error of the category or availability parse is returned only for a row
\* with the online or the partial-maintenance marker.
C23_MaintenanceIgnoresRow ==
  status # NotStarted =>
    /\ MaintenanceOnly => status = Ok([kind |-> "Maintenance"])
    /\ RowReadFailed => (world_row.ic1 \/ world_row.ic2)

\* A maintenance-only row without a valid category and without an
\* availability marker decoded to Maintenance.
C23_Witness ==
  /\ status = Ok([kind |-> "Maintenance"])
  /\ MaintenanceOnly
  /\ ServerCategoryParseFrom(world_row).tag = "Err"
  /\ CharacterAvailabilityParseFrom(world_row).tag = "Err"

----------------------------------------------------------------------------
(* The errors of ServerParseError: src/model/server.rs                     *)

\* The category labels ServerCategory::from_str accepts.
CategoryLabels == {Chars("Standard"), Chars("Preferred"), Chars("Congested"), Chars("New")}

ServerWords ==
  CategoryLabels \cup {Chars(w) : w \in {"standard", "Conjested", "Odin", "oDiN", "Nowhere", ""}}

ServerTextsParsed == {l \o w \o r : l \in Padding, w \in ServerWords, r \in Padding}

\* The two from_str implementations that return a ServerParseError.
ServerErrorsInit ==
  /\ catalog \in {"Server", "ServerCategory"}
  /\ catalog_variant = Idle
  /\ catalog_text \in {Done(t) : t \in ServerTextsParsed}
  /\ catalog_result = NotStarted
  /\ search_doc = Idle /\ search_results = Idle /\ RemoteIdle
  /\ builder = Idle /\ built = Idle /\ url = Idle /\ last_world = Idle
  /\ main_doc = Idle /\ classes_doc = Idle /\ profile = Idle /\ class_map = Idle
  /\ world_row = Idle /\ status = Idle
  /\ lb_row = Idle /\ lb_result = Idle

SpecServerErrors == ServerErrorsInit /\ [][CatalogNext]_vars

\* C24: CategoryParseError is returned only when a category label, trimmed
\* and compared case-sensitively, is not one of Standard, Preferred,
\* Congested, New, and it carries the trimmed label; no other failure, such
\* as an unknown server name given to the server catalog, produces it.
C24_CategoryErrorOnlyForLabels ==
  (/\ catalog_result # NotStarted
   /\ catalog_result.tag = "Err"
   /\ catalog_result.variant = "CategoryParseError") =>
    /\ catalog = "ServerCategory"
    /\ Trim(catalog_text.val) \notin CategoryLabels
    /\ catalog_result.text = Trim(catalog_text.val)

----------------------------------------------------------------------------
(* Display and FromStr of ServerCategory                                   *)

RoundTripCatalogs == {"Datacenter", "Server", "ServerCategory"}

CategoryRoundTripInit ==
  /\ catalog \in RoundTripCatalogs
  /\ catalog_variant \in UNION {DisplayedVariants(c) : c \in RoundTripCatalogs}
  /\ catalog_variant \in DisplayedVariants(catalog)
  /\ catalog_text = NotStarted
  /\ catalog_result = NotStarted
  /\ search_doc = Idle /\ search_results = Idle /\ RemoteIdle
  /\ builder = Idle /\ built = Idle /\ url = Idle /\ last_world = Idle
  /\ main_doc = Idle /\ classes_doc = Idle /\ profile = Idle /\ class_map = Idle
  /\ world_row = Idle /\ status = Idle
  /\ lb_row = Idle /\ lb_result = Idle

SpecCategoryRoundTrip == CategoryRoundTripInit /\ [][RoundTripNext]_vars

\* C29: for every ServerCategory variant (Standard, Preferred, Congested,
\* New), parsing the variant's display string returns that same variant.
C29_CategoryRoundTrip ==
  (catalog = "ServerCategory" /\ catalog_result # NotStarted) =>
    catalog_result = Ok(catalog_variant)

----------------------------------------------------------------------------
(* The profile lookup: src/model/util.rs and Profile::get_async            *)

NOT_FOUND == 404

\* A reqwest::Error converted into LodestoneError::HttpError by `?`.
HttpError == Err("HttpError", "", <<>>)

\* LodestoneError::CharacterNotFound(user_id)
CharacterNotFound(user_id) ==
  [tag |-> "Err", variant |-> "CharacterNotFound", node |-> "", text |-> <<>>,
   user_id |-> user_id]

\* load_profile_url_async after send().await with no test of the status.
load_profile_url_async_sent_unchecked(user_id, sent) ==
  IF sent.tag = "Err" THEN sent ELSE Ok(sent.val)

\* load_profile_url_async after send().await: the `?` returns a transport
\* error, status 404 returns CharacterNotFound, any other status goes on to
\* read the body (Ok).
load_profile_url_async_sent(user_id, sent) ==
  IF sent.tag = "Err" THEN sent
  ELSE IF sent.val = NOT_FOUND THEN CharacterNotFound(user_id)
  ELSE Ok(sent.val)

\* load_profile_url_async after response.text().await: the `?` returns a
\* transport error, otherwise the text is the value of the call.
load_profile_url_async_read(read) == read

\* The frame of a get_async call before its first await completes.
GetAsyncFrame ==
  [pc |-> "class_send", class_response |-> NotStarted, class_page |-> NotStarted,
   profile_response |-> NotStarted, profile_page |-> NotStarted,
   main_doc |-> NotStarted, classes_doc |-> NotStarted, ret |-> NotStarted]

\* `load_profile_url_async(..).await?` of get_async returning the error.
Returning(f, error) == [f EXCEPT !.pc = "done", !.ret = error]

\* get_async resumed when send().await of the class sub-page completes.
get_async_class_sent(user_id, f, event) ==
  IF load_profile_url_async_sent(user_id, event).tag = "Err"
  THEN [Returning(f, load_profile_url_async_sent(user_id, event))
          EXCEPT !.class_response = event,
                 !.class_page = load_profile_url_async_sent(user_id, event)]
  ELSE [f EXCEPT !.pc = "class_text", !.class_response = event]

\* get_async resumed when the class sub-page text arrives, building the
\* class Document at once.
get_async_class_read_eager(user_id, f, event) ==
  IF load_profile_url_async_read(event).tag = "Err"
  THEN [Returning(f, load_profile_url_async_read(event))
          EXCEPT !.class_page = load_profile_url_async_read(event)]
  ELSE [f EXCEPT !.pc = "main_send",
                 !.class_page = load_profile_url_async_read(event),
                 !.classes_doc = Done(load_profile_url_async_read(event).val)]

\* get_async resumed when text().await of the class sub-page completes: the
\* text is kept in class_page and the main page request is sent.
get_async_class_read(user_id, f, event) ==
  IF load_profile_url_async_read(event).tag = "Err"
  THEN [Returning(f, load_profile_url_async_read(event))
          EXCEPT !.class_page = load_profile_url_async_read(event)]
  ELSE [f EXCEPT !.pc = "main_send",
                 !.class_page = load_profile_url_async_read(event)]

\* get_async resumed when send().await of the main page completes.
get_async_main_sent(user_id, f, event) ==
  IF load_profile_url_async_sent(user_id, event).tag = "Err"
  THEN [Returning(f, load_profile_url_async_sent(user_id, event))
          EXCEPT !.profile_response = event,
                 !.profile_page = load_profile_url_async_sent(user_id, event)]
  ELSE [f EXCEPT !.pc = "main_text", !.profile_response = event]

\* get_async resumed when text().await of the main page completes: the two
\* Documents are built and parse_profile is called, with no await between.
get_async_main_read(user_id, f, event) ==
  IF load_profile_url_async_read(event).tag = "Err"
  THEN [Returning(f, load_profile_url_async_read(event))
          EXCEPT !.profile_page = load_profile_url_async_read(event)]
  ELSE [f EXCEPT !.pc = "done",
                 !.profile_page = load_profile_url_async_read(event),
                 !.main_doc = Done(load_profile_url_async_read(event).val),
                 !.classes_doc = Done(f.class_page.val),
                 !.ret = parse_profile(user_id,
                                       load_profile_url_async_read(event).val,
                                       f.class_page.val)]

LookupIds == {11908971, 1}

\* What send().await completes with: a transport error or a response status.
Statuses == {200, NOT_FOUND, 500}
SendEvents == {HttpError} \cup {Ok(c) : c \in Statuses}

\* What text().await completes with: a transport error or the body, given
\* as the Document it is parsed to.
MainPages == {GoodMainDoc, [GoodMainDoc EXCEPT !.name = None]}
MainTextEvents == {HttpError} \cup {Ok(b) : b \in MainPages}
ClassTextEvents == {HttpError} \cup {Ok(b) : b \in ClassesDocAlts}

\* The call's frame as the state holds it.
LookupFrame ==
  [pc |-> lookup_pc, class_response |-> class_response, class_page |-> class_page,
   profile_response |-> profile_response, profile_page |-> profile_page,
   main_doc |-> main_doc, classes_doc |-> classes_doc, ret |-> profile]

Resumed(f) ==
  /\ lookup_pc' = f.pc
  /\ class_response' = f.class_response
  /\ class_page' = f.class_page
  /\ profile_response' = f.profile_response
  /\ profile_page' = f.profile_page
  /\ main_doc' = f.main_doc
  /\ classes_doc' = f.classes_doc
  /\ profile' = f.ret
  /\ UNCHANGED <<lookup_id, class_map>>
  /\ UNCHANGED <<search_vars, status_vars, standings_vars, results_vars, catalog_vars,
                 worlds_vars, query_vars>>

\* Profile::get_async(client, lookup_id), polled up to its first await.
LookupInit ==
  /\ ResultsIdle /\ CatalogIdle /\ WorldsIdle /\ QueryIdle
  /\ lookup_id \in LookupIds
  /\ lookup_pc = GetAsyncFrame.pc
  /\ class_response = NotStarted /\ class_page = NotStarted
  /\ profile_response = NotStarted /\ profile_page = NotStarted
  /\ main_doc = NotStarted /\ classes_doc = NotStarted
  /\ profile = NotStarted
  /\ class_map = Idle
  /\ builder = Idle /\ built = Idle /\ url = Idle /\ last_world = Idle
  /\ world_row = Idle /\ status = Idle
  /\ lb_row = Idle /\ lb_result = Idle

\* send().await of the class sub-page request completes.
ClassSendCompletes ==
  /\ lookup_pc = "class_send"
  /\ \E event \in SendEvents : Resumed(get_async_class_sent(lookup_id, LookupFrame, event))

\* text().await of the class sub-page response completes.
ClassTextCompletes ==
  /\ lookup_pc = "class_text"
  /\ \E event \in ClassTextEvents : Resumed(get_async_class_read(lookup_id, LookupFrame, event))

\* send().await of the main page request completes.
MainSendCompletes ==
  /\ lookup_pc = "main_send"
  /\ \E event \in SendEvents : Resumed(get_async_main_sent(lookup_id, LookupFrame, event))

\* text().await of the main page response completes.
MainTextCompletes ==
  /\ lookup_pc = "main_text"
  /\ \E event \in MainTextEvents : Resumed(get_async_main_read(lookup_id, LookupFrame, event))

\* The caller drops the future while it is suspended at an await (a
\* timeout or a cancellation): nothing of get_async runs afterwards.
DropFuture ==
  /\ lookup_pc \in {"class_send", "class_text", "main_send", "main_text"}
  /\ lookup_pc' = "dropped"
  /\ UNCHANGED <<lookup_id, class_response, class_page, profile_response, profile_page>>
  /\ UNCHANGED <<profile_vars, search_vars, status_vars, standings_vars, results_vars,
                 catalog_vars, worlds_vars, query_vars>>

LookupNext ==
  \/ ClassSendCompletes
  \/ ClassTextCompletes
  \/ MainSendCompletes
  \/ MainTextCompletes
  \/ DropFuture

SpecLookup == LookupInit /\ [][LookupNext]_vars

----------------------------------------------------------------------------
(* Claims about the profile lookup                                         *)

\* A fetch answered with status 404.
AnsweredNotFound == class_response = Ok(NOT_FOUND) \/ profile_response = Ok(NOT_FOUND)

\* Both fetches answered with another status and delivered their bodies.
BothDelivered ==
  /\ class_response.tag = "Ok" /\ class_response.val # NOT_FOUND
  /\ profile_response.tag = "Ok" /\ profile_response.val # NOT_FOUND
  /\ class_page.tag = "Ok"
  /\ profile_page.tag = "Ok"

\* C25: when the fetch of the class sub-page or of the main page answers
\* with status 404 the lookup returns CharacterNotFound carrying the
\* requested id, not a transport or parse error; with any other status the
\* body, once read, goes on to extraction.
C25_NotFoundIsDistinct ==
  /\ AnsweredNotFound =>
       /\ lookup_pc = "done"
       /\ profile = CharacterNotFound(lookup_id)
  /\ BothDelivered =>
       /\ lookup_pc = "done"
       /\ profile = parse_profile(lookup_id, profile_page.val, class_page.val)

\* The class sub-page was delivered, the main page answered 404 and the
\* lookup returned CharacterNotFound.
C25_Witness ==
  /\ class_page.tag = "Ok"
  /\ profile_response = Ok(NOT_FOUND)
  /\ lookup_pc = "done"
  /\ profile = CharacterNotFound(lookup_id)

\* An extraction step has run: a Document was built from a page.
ExtractionRan == main_doc # NotStarted \/ classes_doc # NotStarted

\* A fetch failed: its load returned an error.
FetchFailed == class_page.tag = "Err" \/ profile_page.tag = "Err"

\* C26: in get_async extraction starts only after both page fetches have
\* completed successfully: when a fetch failed or the call was cancelled no
\* extraction step has run, a failed fetch's error is what the call
\* returns, and parse_profile is handed the two pages together.
C26_ExtractionAfterBothFetches ==
  /\ ExtractionRan =>
       /\ class_page.tag = "Ok" /\ profile_page.tag = "Ok"
       /\ main_doc = Done(profile_page.val) /\ classes_doc = Done(class_page.val)
       /\ profile = parse_profile(lookup_id, main_doc.val, classes_doc.val)
  /\ lookup_pc = "dropped" => (~ExtractionRan /\ profile = NotStarted)
  /\ FetchFailed =>
       /\ ~ExtractionRan
       /\ lookup_pc = "done"
       /\ profile \in {class_page, profile_page}
  /\ profile # NotStarted => (FetchFailed \/ ExtractionRan)

\* The class sub-page was delivered and the main page fetch failed: the
\* call returned the error and no Document was built.
C26_Witness ==
  /\ class_page.tag = "Ok"
  /\ profile_page.tag = "Err"
  /\ profile = profile_page
  /\ ~ExtractionRan

----------------------------------------------------------------------------
(* The leaderboard query: src/model/standings.rs                           *)

\* write!(str, "{key}={}&", value) when the field is Some.
QueryPart(key, field, text) ==
  IF field.some THEN Chars(key) \o Chars("=") \o text \o Chars("&") ELSE <<>>

\* FreeCompanyLeaderboardQuery::get_query_parts: filter, world_name, dcgroup
\* and page are written; grand_company is not read.  The integer fields are
\* held as their decimal numerals.
get_query_parts(self) ==
  QueryPart("filter", self.filter, IF self.filter.some THEN self.filter.val ELSE <<>>)
  \o QueryPart("world_name", self.world_name,
               IF self.world_name.some THEN ServerDisplay(self.world_name.val) ELSE <<>>)
  \o QueryPart("dcgroup", self.dc_group,
               IF self.dc_group.some THEN DatacenterDisplay(self.dc_group.val) ELSE <<>>)
  \o QueryPart("page", self.page, IF self.page.some THEN self.page.val ELSE <<>>)

Queries ==
  [filter : {None, Some(Chars("-1")), Some(Chars("3"))},
   world_name : {None, Some("Odin"), Some("Anima")},
   dc_group : {None, Some("Light"), Some("Primal")},
   page : {None, Some(Chars("1")), Some(Chars("5"))},
   grand_company : {None, Some("Maelstrom"), Some("TwinAdder"), Some("ImmortalFlames")}]

QueryInit ==
  /\ ResultsIdle /\ CatalogIdle /\ WorldsIdle /\ LookupIdle
  /\ query \in Queries
  /\ query_parts = NotStarted
  /\ builder = Idle /\ built = Idle /\ url = Idle /\ last_world = Idle
  /\ main_doc = Idle /\ classes_doc = Idle /\ profile = Idle /\ class_map = Idle
  /\ world_row = Idle /\ status = Idle
  /\ lb_row = Idle /\ lb_result = Idle

\* query.get_query_parts(), as weekly() and monthly() call it
GetQueryParts ==
  /\ query_parts = NotStarted
  /\ query_parts' = Done(get_query_parts(query))
  /\ UNCHANGED query
  /\ UNCHANGED <<search_vars, profile_vars, status_vars, standings_vars, results_vars,
                 catalog_vars, worlds_vars, lookup_vars>>

QueryNext == GetQueryParts

SpecQuery == QueryInit /\ [][QueryNext]_vars

----------------------------------------------------------------------------
(* Claims about the leaderboard query                                      *)

\* The parameters of the query string: the texts between the `&`s.
QueryParams ==
  LET pieces == Split(query_parts.val, Chars("&"))
  IN {pieces[i] : i \in {j \in 1..Len(pieces) : pieces[j] # <<>>}}

\* The values the query string gives for a key.
ValuesOf(key) ==
  {SubSeq(q, Len(key) + 2, Len(q)) :
     q \in {r \in QueryParams :
              /\ Len(r) > Len(key)
              /\ SubSeq(r, 1, Len(key) + 1) = Chars(key) \o Chars("=")}}

\* The key has one parameter, with the given value, when the field is set,
\* and none when it is not.
Carries(key, field, text) ==
  IF field.some THEN ValuesOf(key) = {text} ELSE ValuesOf(key) = {}

\* The gcid the query documents for a grand company.
GcId(gc) ==
  CASE gc = "Maelstrom" -> Chars("1")
    [] gc = "TwinAdder" -> Chars("2")
    [] gc = "ImmortalFlames" -> Chars("3")

\* filter, world, datacenter and page each have their parameter exactly
\* when set.
FourFieldsCarried ==
  /\ Carries("filter", query.filter, IF query.filter.some THEN query.filter.val ELSE <<>>)
  /\ Carries("world_name", query.world_name,
             IF query.world_name.some THEN ServerDisplay(query.world_name.val) ELSE <<>>)
  /\ Carries("dcgroup", query.dc_group,
             IF query.dc_group.some THEN DatacenterDisplay(query.dc_group.val) ELSE <<>>)
  /\ Carries("page", query.page, IF query.page.some THEN query.page.val ELSE <<>>)

\* C27: the query string of get_query_parts has one parameter for each of
\* filter, world, datacenter, page and grand company that is set and none
\* for a field that is unset; a query with grand_company = Some(gc) carries
\* gcid (1 = Maelstrom, 2 = Twin Adder, 3 = Immortal Flames).
C27_EverySetFieldCarried ==
  query_parts # NotStarted =>
    /\ FourFieldsCarried
    /\ Carries("gcid", query.grand_company,
               IF query.grand_company.some THEN GcId(query.grand_company.val) ELSE <<>>)

\* The four fields that get_query_parts reads are carried as the claim says.
QueryCarriesFourFields == query_parts # NotStarted => FourFieldsCarried

----------------------------------------------------------------------------
(* The server text of the character page: Profile::parse_server            *)

\* Texts of the frame__chara__world node: a name with or without leading
\* separators, a separator and a bracketed datacenter.
ServerTextParts ==
  {lead \o name \o sep \o dc :
     lead \in {<<>>, <<" ">>, <<NBSP>>},
     name \in {Chars("Odin"), Chars("odin"), Chars("Aniuma"), Chars("Gondor"), <<>>},
     sep \in {<<>>, <<" ">>, <<NBSP>>},
     dc \in {<<>>, Chars("[Light]")}}

ServerTextDocs ==
  {[GoodMainDoc EXCEPT !.world = w] : w \in {None} \cup {Some(t) : t \in ServerTextParts}}

SpecServerText == ProfileInit(ServerTextDocs, {GoodClassesDoc}) /\ [][ProfileNext]_vars

\* The text before the first occurrence of the character, or the whole text.
UpTo(s, c) ==
  IF \E i \in 1..Len(s) : s[i] = c
  THEN SubSeq(s, 1, (CHOOSE i \in 1..Len(s) : s[i] = c /\ \A j \in 1..(i - 1) : s[j] # c) - 1)
  ELSE s

\* The intermediate tokens of the server text: the part before the first
\* non-breaking space, and of that the part before the first plain space.
BeforeNbsp == UpTo(main_doc.world.val, NBSP)
BeforeSpace == UpTo(BeforeNbsp, " ")

\* C28: in parse_server the server text is split at the first non-breaking
\* space and then at the first plain space; whenever an intermediate token
\* is empty the result is SearchError::InvalidData and not a parse error of
\* the server catalog.
C28_EmptyTokenIsInvalidData ==
  (Returned /\ main_doc.world.some /\ (BeforeNbsp = <<>> \/ BeforeSpace = <<>>)) =>
    /\ profile.tag = "Err"
    /\ profile.variant = "InvalidData"

\* The token handed to the server catalog is the text before the first
\* non-breaking space and before the first plain space, empty or not.
ServerTokenReachesCatalog ==
  (Returned /\ main_doc.world.some) =>
    IF ServerFromStr(BeforeSpace).tag = "Ok"
    THEN profile.tag = "Ok" /\ profile.val.server = ServerFromStr(BeforeSpace).val
    ELSE profile = ServerFromStr(BeforeSpace)

----------------------------------------------------------------------------
(* Further claims about the search builder                                 *)

\* The fields of the builder named in the set are the same before and after
\* the step.
FieldsKept(fields) ==
  /\ "character" \in fields => builder'.character = builder.character
  /\ "server" \in fields => builder'.server = builder.server
  /\ "datacenter" \in fields => builder'.datacenter = builder.datacenter
  /\ "lang" \in fields => builder'.lang = builder.lang
  /\ "gc" \in fields => builder'.gc = builder.gc

\* The effect of each builder call on the builder.
CharacterEffect ==
  Character => FieldsKept({"server", "datacenter", "lang", "gc"}) /\ builder'.character.some

LangEffect ==
  Lang =>
    /\ FieldsKept({"character", "server", "datacenter", "gc"})
    /\ \E l \in Language :
         /\ builder'.lang = builder.lang \cup {l}
         /\ l \in builder.lang => builder' = builder

GrandCompanyEffect ==
  GrandCompanyCall =>
    /\ FieldsKept({"character", "server", "datacenter", "lang"})
    /\ \E g \in GrandCompany :
         /\ builder'.gc = builder.gc \cup {g}
         /\ g \in builder.gc => builder' = builder

WorldEffect == (ServerCall \/ DatacenterCall) => FieldsKept({"character", "lang", "gc"})

\* C30: each SearchBuilder call changes only its own part of the builder:
\* character() replaces the name and keeps server, datacenter, languages and
\* grand companies; lang() and grand_company() add one element to their own
\* set, or nothing when it is already there, and keep every other field;
\* server() and datacenter() keep name, languages and grand companies.
C30_CallsChangeOwnPart ==
  [][CharacterEffect /\ LangEffect /\ GrandCompanyEffect /\ WorldEffect]_vars

\* A builder on which every kind of call has acted, the name last.
C30_Witness ==
  /\ ~built
  /\ builder.character.some
  /\ builder.server.some
  /\ builder.lang # {}
  /\ builder.gc # {}
====
